---- MODULE Spec2Model ----
(***************************************************************************)
(* GTFS preprocessing pipeline of the Hyderabad transit visualization:     *)
(* feed loading, validation, id prefixing, stop / route / timetable        *)
(* processing and output assembly, together with the time normalization    *)
(* helper.  Text values (ids, GTFS times) are sequences of one-character   *)
(* strings so that prefixing, splitting, parsing and formatting are        *)
(* computed, not assumed.                                                  *)
(***************************************************************************)
EXTENDS Integers, Sequences, FiniteSets, TLC

VARIABLES
    \* ---- the preprocessing run (scripts/main.py) ----
    feeds,        \* agency -> the raw feed bundle read for it
    stage,        \* position of the main loop: "off", a per-feed stage, "assemble", "write", "done"
    cur,          \* index into AgencyOrder of the feed being processed
    feed_error,   \* agency -> "none" | "FeedLoadError" | "ValidationError"
    tables,       \* agency -> the namespaced tables (NoTables before / when failed)
    stop_res,     \* agency -> sequence of canonical stops
    route_res,    \* agency -> sequence of canonical routes
    tt_res,       \* agency -> set of timetable entries
    artifacts,    \* the assembled artifact set, or NoOutput
    run_error,    \* "none" | "IndexIntegrityError" | "NoFeedSucceeded"
    exit_status,  \* -1 while running, then the process exit code
    written,      \* the artifact set on disk, or NoOutput
    \* ---- normalize_time under test ----
    tin,          \* a GTFS time string handed to normalize_time
    tout,         \* normalize_time(tin), or NotRun
    tout2,        \* normalize_time(tout), or NotRun
    \* ---- the per-agency stages as parallel workers ----
    worker,       \* agency -> "idle", the stage its worker is at, "finished" or "failed"
    finish_order, \* the agencies in the order their workers ended
    \* ---- the output directory and a consumer of it ----
    disk,         \* path -> the file at that path, or NoFile
    wstep,        \* how far the writer has come through the output files
    seen,         \* what the consumer's last fetch returned, or NoRead
    \* ---- the map UI (TransitContext) ----
    state,        \* the TransitState held by useReducer(transitReducer, initialState)
    \* ---- the data loader (lib/dataLoader.ts) and its callers ----
    cachedData,   \* the module's cachedData: a loaded object, or NoObject for null
    call,         \* caller -> where its loadTransitData() call stands
    \* ---- the SearchBox component ----
    box           \* its useState values: query, isOpen, selectedIndex, category

pipeVars == <<feeds, stage, cur, feed_error, tables, stop_res, route_res, tt_res,
              artifacts, run_error, exit_status, written>>
timeVars == <<tin, tout, tout2>>
parVars == <<worker, finish_order>>
fileVars == <<disk, wstep, seen>>
uiVars == <<state>>
loadVars == <<cachedData, call>>
boxVars == <<box>>
vars == <<pipeVars, timeVars, parVars, fileVars, uiVars, loadVars, boxVars>>
\* what an action of the run leaves alone, what an action of the time helper
\* leaves alone, and what a step of a worker leaves alone besides the run
nonPipeVars == <<timeVars, parVars, fileVars, uiVars, loadVars, boxVars>>
nonTimeVars == <<pipeVars, parVars, fileVars, uiVars, loadVars, boxVars>>
nonParVars == <<timeVars, fileVars, uiVars, loadVars, boxVars>>
nonFileVars == <<timeVars, parVars, uiVars, loadVars, boxVars>>
nonUiVars == <<pipeVars, timeVars, parVars, fileVars, loadVars, boxVars>>
\* what the loader leaves alone, and what a caller of it leaves alone
nonLoadVars == <<pipeVars, timeVars, parVars, fileVars, uiVars, boxVars>>
outsideUiVars == <<pipeVars, timeVars, parVars, fileVars, boxVars>>
\* what an event of the SearchBox leaves alone besides the TransitState
outsideBoxVars == <<pipeVars, timeVars, parVars, fileVars, loadVars>>

-----------------------------------------------------------------------------
(* Bounds of the model *)

\* stops 1..MaxStops may appear in the stop pattern of a trip
MaxStops == 3
\* GTFS hours 0..MaxHour are handed to normalize_time
MaxHour == 49

-----------------------------------------------------------------------------
(* Text *)

Digits == <<"0", "1", "2", "3", "4", "5", "6", "7", "8", "9">>

\* characters in code-point order, for Python / pandas string comparison
Alphabet == <<"0", "1", "2", "3", "4", "5", "6", "7", "8", "9", ":",
              "A", "B", "C", "D", "E", "F", "G", "H", "I", "J", "K", "L", "M",
              "N", "O", "P", "Q", "R", "S", "T", "U", "V", "W", "X", "Y", "Z", "_">>

Rank(c) == CHOOSE i \in 1..Len(Alphabet) : Alphabet[i] = c

RECURSIVE LexLess(_, _)
LexLess(a, b) ==
    IF b = <<>> THEN FALSE
    ELSE IF a = <<>> THEN TRUE
    ELSE IF Head(a) = Head(b) THEN LexLess(Tail(a), Tail(b))
    ELSE Rank(Head(a)) < Rank(Head(b))

LexLeq(a, b) == a = b \/ LexLess(a, b)

IsDigit(c) == \E i \in 1..10 : Digits[i] = c
DigitVal(c) == (CHOOSE i \in 1..10 : Digits[i] = c) - 1

\* the value Python raises instead of returning
ValueError == <<"ValueError">>

\* Python int(s) for an unsigned decimal string; ValueError otherwise
RECURSIVE IntAcc(_, _)
IntAcc(s, acc) ==
    IF s = <<>> THEN acc ELSE IntAcc(Tail(s), acc * 10 + DigitVal(Head(s)))
IsNumeral(s) == s # <<>> /\ \A i \in 1..Len(s) : IsDigit(s[i])
ToInt(s) == IntAcc(s, 0)

\* Python str.split(sep) for a one-character separator
RECURSIVE SplitAcc(_, _, _, _)
SplitAcc(s, sep, done, part) ==
    IF s = <<>> THEN Append(done, part)
    ELSE IF Head(s) = sep THEN SplitAcc(Tail(s), sep, Append(done, part), <<>>)
    ELSE SplitAcc(Tail(s), sep, done, Append(part, Head(s)))
Split(s, sep) == SplitAcc(s, sep, <<>>, <<>>)

\* Python str(n) for n >= 0
RECURSIVE Dec(_)
Dec(n) == IF n < 10 THEN <<Digits[n + 1]>> ELSE Dec(n \div 10) \o <<Digits[(n % 10) + 1]>>

\* Python f"{n:02d}"
Fmt02d(n) == IF n < 10 THEN <<"0">> \o Dec(n) ELSE Dec(n)

-----------------------------------------------------------------------------
(* Time normalization *)

\* the same without the wrap around midnight
normalize_time_nowrap(gtfs_time) ==
    LET parts == Split(gtfs_time, ":") IN
    IF Len(parts) # 3 \/ \E i \in 1..3 : ~IsNumeral(parts[i]) THEN ValueError
    ELSE Fmt02d(ToInt(parts[1])) \o <<":">> \o Fmt02d(ToInt(parts[2]))

\* h, m, s = map(int, gtfs_time.split(':')); h = h % 24; return f"{h:02d}:{m:02d}"
normalize_time(gtfs_time) ==
    LET parts == Split(gtfs_time, ":") IN
    IF Len(parts) # 3 \/ \E i \in 1..3 : ~IsNumeral(parts[i]) THEN ValueError
    ELSE LET h == ToInt(parts[1]) % 24
             m == ToInt(parts[2])
         IN  Fmt02d(h) \o <<":">> \o Fmt02d(m)

-----------------------------------------------------------------------------
(* Agencies and feed bundles *)

\* the three feeds, in the order the main loop processes them
AgencyOrder == <<"HMRL", "MMTS", "TGSRTC">>
Agencies == {AgencyOrder[i] : i \in 1..Len(AgencyOrder)}

AgencyCode(a) ==
    CASE a = "HMRL" -> <<"H", "M", "R", "L">>
      [] a = "MMTS" -> <<"M", "M", "T", "S">>
      [] a = "TGSRTC" -> <<"T", "G", "S", "R", "T", "C">>

\* agency-local ids as they stand in the feed files
StopId(i) == Dec(i)
OrphanStop == <<"9", "0">>       \* in stops.txt, no stop_times row
DanglingStop == <<"9", "1">>     \* in stops.txt, rows only of unusable trips
UnknownStop == <<"9", "9">>      \* in stop_times.txt, not in stops.txt
RouteId(i) == <<"R">> \o Dec(i)
UnknownRoute == <<"R", "9">>     \* in trips.txt, not in routes.txt
TripId(i) == <<"T">> \o Dec(i)
UnknownTrip == <<"T", "9">>      \* in stop_times.txt, not in trips.txt

\* shapes.txt ids; a trip without a shape has the empty shape_id
ShapeId(i) == <<"S">> \o Dec(i)
NoShape == <<>>

\* Coordinates are counted in millionths of a degree.  No coordinate of the
\* feeds ends in the digit 5, so rounding never meets a tie.
StopLat(i) == 17400000 + 10000 * i + 4
StopLon(i) == 78400000 + 10000 * i + 6
StopRow(id, i) == [stop_id |-> id, stop_lat |-> StopLat(i), stop_lon |-> StopLon(i)]

\* round(x, 5)
Round5(x) == ((x + 5) \div 10) * 10

\* shapes.txt: shape 1 has three points, written out of order; shape 2 a single point
ShapeRows ==
    << [shape_id |-> ShapeId(1), shape_pt_sequence |-> 2, shape_pt_lat |-> 17415003, shape_pt_lon |-> 78415007],
       [shape_id |-> ShapeId(1), shape_pt_sequence |-> 1, shape_pt_lat |-> 17405002, shape_pt_lon |-> 78405008],
       [shape_id |-> ShapeId(2), shape_pt_sequence |-> 1, shape_pt_lat |-> 17500001, shape_pt_lon |-> 78500009],
       [shape_id |-> ShapeId(1), shape_pt_sequence |-> 3, shape_pt_lat |-> 17425004, shape_pt_lon |-> 78425006] >>
NoShapesTable == [present |-> FALSE, rows |-> <<>>]
ShapesTable == [present |-> TRUE, rows |-> ShapeRows]

\* calendar.txt rows: monday..sunday
WeekdaysRow == <<1, 1, 1, 1, 1, 0, 0>>
WeekendRow == <<0, 0, 0, 0, 0, 1, 1>>
DailyRow == <<1, 1, 1, 1, 1, 1, 1>>
FridayRow == <<0, 0, 0, 0, 1, 0, 0>>
NoDayRow == <<0, 0, 0, 0, 0, 0, 0>>
\* the service_ids trips refer to; NOCAL has no calendar.txt row
ServiceIds == {<<"W", "K">>, <<"W", "E">>, <<"D", "L", "Y">>, <<"N", "O", "C", "A", "L">>,
               <<"F", "R", "I">>, <<"N", "O", "N", "E">>}
CalendarRows ==
    << [service_id |-> <<"W", "K">>, days |-> WeekdaysRow],
       [service_id |-> <<"W", "E">>, days |-> WeekendRow],
       [service_id |-> <<"D", "L", "Y">>, days |-> DailyRow],
       [service_id |-> <<"F", "R", "I">>, days |-> FridayRow],
       [service_id |-> <<"N", "O", "N", "E">>, days |-> NoDayRow] >>

\* a stop pattern: the stops a trip calls at, in travel order
RECURSIVE Range(_, _)
Range(i, j) == IF i > j THEN <<>> ELSE <<i>> \o Range(i + 1, j)
Patterns == {Range(1, k) : k \in 0..MaxStops} \cup {Range(k, MaxStops) : k \in 2..MaxStops}

\* default departure of trip k at the p-th stop of its pattern
DepTime(k, p) == Fmt02d(5 + k) \o <<":">> \o Fmt02d(10 * p) \o <<":", "0", "0">>

StopTimeRows(k, pat, dep1) ==
    { [trip_id |-> TripId(k), stop_id |-> StopId(pat[p]), stop_sequence |-> 10 * p,
       departure_time |-> IF p = 1 /\ dep1 # <<>> THEN dep1 ELSE DepTime(k, p)]
      : p \in 1..Len(pat) }

Rotate(s, n) == [i \in 1..Len(s) |-> s[((i - 1 + n) % Len(s)) + 1]]

\* The content of one feed bundle.  rot: row order of the trips of route 1 in
\* trips.txt; pat1, pat2: stop patterns of trips 1 and 2; dep: first departure
\* of trips 1..3 (<<>> for the default); svc: service_id of trips 1..3.
Bundle(rot, pat1, pat2, dep, svc) ==
    [ stops |-> [i \in 1..MaxStops |-> StopRow(StopId(i), i)]
                \o << StopRow(OrphanStop, 90), StopRow(DanglingStop, 91),
                      StopRow(StopId(1), 1) >>,
      routes |-> << [route_id |-> RouteId(1)], [route_id |-> RouteId(2)],
                    [route_id |-> RouteId(1)] >>,
      trips |-> Rotate(<< [route_id |-> RouteId(1), service_id |-> svc[1], trip_id |-> TripId(1),
                           shape_id |-> NoShape],
                          [route_id |-> RouteId(1), service_id |-> svc[2], trip_id |-> TripId(2),
                           shape_id |-> NoShape],
                          [route_id |-> RouteId(1), service_id |-> svc[3], trip_id |-> TripId(3),
                           shape_id |-> NoShape] >>, rot)
                \o << [route_id |-> RouteId(2), service_id |-> <<"W", "E">>, trip_id |-> TripId(4),
                       shape_id |-> NoShape],
                      [route_id |-> UnknownRoute, service_id |-> <<"W", "K">>, trip_id |-> TripId(5),
                       shape_id |-> NoShape] >>,
      stop_times |->
          StopTimeRows(1, pat1, dep[1]) \cup StopTimeRows(2, pat2, dep[2])
          \cup StopTimeRows(3, <<1, 2>>, dep[3])
          \cup { [trip_id |-> TripId(4), stop_id |-> StopId(2), stop_sequence |-> 1,
                  departure_time |-> <<"2", "3", ":", "5", "0", ":", "0", "0">>],
                 [trip_id |-> TripId(4), stop_id |-> UnknownStop, stop_sequence |-> 2,
                  departure_time |-> <<"2", "3", ":", "5", "5", ":", "0", "0">>],
                 [trip_id |-> TripId(4), stop_id |-> StopId(1), stop_sequence |-> 3,
                  departure_time |-> <<"2", "4", ":", "0", "5", ":", "0", "0">>],
                 [trip_id |-> TripId(5), stop_id |-> DanglingStop, stop_sequence |-> 1,
                  departure_time |-> <<"0", "7", ":", "0", "0", ":", "0", "0">>],
                 [trip_id |-> TripId(5), stop_id |-> StopId(1), stop_sequence |-> 2,
                  departure_time |-> <<"0", "7", ":", "2", "0", ":", "0", "0">>],
                 [trip_id |-> UnknownTrip, stop_id |-> DanglingStop, stop_sequence |-> 1,
                  departure_time |-> <<"0", "9", ":", "0", "0", ":", "0", "0">>] },
      calendar |-> CalendarRows,
      shapes |-> NoShapesTable ]

\* the bundle b with shapes.txt delivered or not, and trip 1 referring to shape sh
WithShapes(b, present, sh) ==
    [ b EXCEPT !.shapes = IF present THEN ShapesTable ELSE NoShapesTable,
               !.trips = [i \in 1..Len(b.trips) |->
                             IF b.trips[i].trip_id = TripId(1)
                             THEN [b.trips[i] EXCEPT !.shape_id = sh]
                             ELSE b.trips[i]] ]

\* how a feed bundle presents itself to the loader and the validator
Health == {"ok", "missing_table", "missing_column"}
Feed(health, bundle) == [health |-> health, bundle |-> bundle]

DefaultDep == <<<<>>, <<>>, <<>>>>
DefaultSvc == << <<"W", "K">>, <<"W", "K">>, <<"D", "L", "Y">> >>

\* feeds that differ in which stops each trip serves and in the row order of trips.txt
TopologyBundles ==
    { Bundle(rot, p1, p2, DefaultDep, DefaultSvc) : rot \in 0..2, p1 \in Patterns, p2 \in Patterns }

\* feeds that differ in whether shapes.txt is delivered and in the shape of trip 1
GeoBundles ==
    { WithShapes(Bundle(rot, p1, Range(1, MaxStops), DefaultDep, DefaultSvc), present, sh) :
        rot \in 0..1, p1 \in {<<1>>, <<1, 2>>, <<2, 3>>}, present \in BOOLEAN,
        sh \in {NoShape, ShapeId(1), ShapeId(2)} }

-----------------------------------------------------------------------------
(* Sequences and sets of rows *)

SeqToSet(s) == {s[i] : i \in 1..Len(s)}

RECURSIVE Concat(_)
Concat(ss) == IF ss = <<>> THEN <<>> ELSE Head(ss) \o Concat(Tail(ss))

\* a finite set of integers as an ascending sequence
RECURSIVE Ascending(_)
Ascending(S) ==
    IF S = {} THEN <<>>
    ELSE LET m == CHOOSE x \in S : \A y \in S : x <= y
         IN  <<m>> \o Ascending(S \ {m})

\* the rows of s at the positions idx, in their order in s
SelectRows(s, idx) ==
    LET ord == Ascending(idx)
    IN  [k \in 1..Len(ord) |-> s[ord[k]]]

\* rows of s whose key did not occur in an earlier row (DataFrame.drop_duplicates, keep first)
DropDuplicates(s, key) ==
    SelectRows(s, {i \in 1..Len(s) : \A j \in 1..(i - 1) : s[j][key] # s[i][key]})

-----------------------------------------------------------------------------
(* Identifier Namespacer *)

\* the id left as it stands in the feed
NoPrefix(a, id) == id
\* the prefix put on twice
PrefixTwice(a, id) == AgencyCode(a) \o <<"_">> \o AgencyCode(a) \o <<"_">> \o id
\* id -> agency_code + "_" + id
PrefixId(a, id) == AgencyCode(a) \o <<"_">> \o id

NamespaceTables(a, b) ==
    [ stops |-> [i \in 1..Len(b.stops) |->
                    [stop_id |-> PrefixId(a, b.stops[i].stop_id),
                     stop_lat |-> b.stops[i].stop_lat, stop_lon |-> b.stops[i].stop_lon]],
      routes |-> [i \in 1..Len(b.routes) |-> [route_id |-> PrefixId(a, b.routes[i].route_id)]],
      trips |-> [i \in 1..Len(b.trips) |->
                    [route_id |-> PrefixId(a, b.trips[i].route_id),
                     service_id |-> PrefixId(a, b.trips[i].service_id),
                     trip_id |-> PrefixId(a, b.trips[i].trip_id),
                     shape_id |-> b.trips[i].shape_id]],
      stop_times |-> { [trip_id |-> PrefixId(a, r.trip_id), stop_id |-> PrefixId(a, r.stop_id),
                        stop_sequence |-> r.stop_sequence,
                        departure_time |-> r.departure_time] : r \in b.stop_times },
      calendar |-> [i \in 1..Len(b.calendar) |->
                      [service_id |-> PrefixId(a, b.calendar[i].service_id),
                       days |-> b.calendar[i].days]],
      shapes |-> b.shapes ]

\* Array.join(sep)
RECURSIVE Join(_, _)
Join(parts, sep) ==
    IF parts = <<>> THEN <<>>
    ELSE IF Len(parts) = 1 THEN parts[1]
    ELSE parts[1] \o <<sep>> \o Join(Tail(parts), sep)

\* const [agency, ...rest] = prefixedId.split('_'); originalId: rest.join('_')
parseStopId(prefixedId) ==
    LET parts == Split(prefixedId, "_")
    IN  [agency |-> parts[1], originalId |-> Join(Tail(parts), "_")]
parseRouteId(prefixedId) ==
    LET parts == Split(prefixedId, "_")
    IN  [agency |-> parts[1], originalId |-> Join(Tail(parts), "_")]

-----------------------------------------------------------------------------
(* Rows with dangling foreign keys are dropped by the joins *)

StopIds(t) == {r.stop_id : r \in SeqToSet(t.stops)}
RouteIds(t) == {r.route_id : r \in SeqToSet(t.routes)}
\* trips.txt rows that join to routes.txt
JoinedTrips(t) ==
    SelectRows(t.trips, {i \in 1..Len(t.trips) : t.trips[i].route_id \in RouteIds(t)})
\* stop_times.txt rows that join to a joined trip and to stops.txt
JoinedStopTimes(t) ==
    LET tids == {tr.trip_id : tr \in SeqToSet(JoinedTrips(t))}
    IN  {r \in t.stop_times : r.trip_id \in tids /\ r.stop_id \in StopIds(t)}

-----------------------------------------------------------------------------
(* Stop processing *)

\* the latest time of S
LatestTime(S) == CHOOSE x \in S : \A y \in S : LexLeq(y, x)
MinTime(S) == CHOOSE x \in S : \A y \in S : LexLeq(x, y)
MaxTime(S) == CHOOSE x \in S : \A y \in S : LexLeq(y, x)

trips_at_stop(t, stop_id) == {r.trip_id : r \in {x \in JoinedStopTimes(t) : x.stop_id = stop_id}}

\* the join on trip_id finding nothing
routes_of_no_trip(t, stop_id) == {}
\* trips[trips.trip_id.isin(trips_at_stop)].route_id.unique()
routes_at_stop(t, stop_id) ==
    {tr.route_id : tr \in {x \in SeqToSet(JoinedTrips(t)) : x.trip_id \in trips_at_stop(t, stop_id)}}

\* a stop is kept when it has at least one stop_times row
HasService(t, stop_id) == \E r \in JoinedStopTimes(t) : r.stop_id = stop_id

\* stops[stops.stop_id == stop_id], duplicate rows removed
stop_row(t, stop_id) ==
    LET uniq == DropDuplicates(t.stops, "stop_id")
    IN  uniq[CHOOSE i \in 1..Len(uniq) : uniq[i].stop_id = stop_id]

CanonicalStop(a, t, stop_id) ==
    LET times == {normalize_time(r.departure_time) :
                     r \in {x \in JoinedStopTimes(t) : x.stop_id = stop_id}}
    IN  [ stop_id |-> stop_id, agency |-> a, routes |-> routes_at_stop(t, stop_id),
          lat |-> Round5(stop_row(t, stop_id).stop_lat),
          lng |-> Round5(stop_row(t, stop_id).stop_lon),
          first_time |-> MinTime(times), last_time |-> MaxTime(times) ]

StopResolver(a, t) ==
    LET uniq == DropDuplicates(t.stops, "stop_id")
        rows == SelectRows(uniq, {i \in 1..Len(uniq) : HasService(t, uniq[i].stop_id)})
    IN  [i \in 1..Len(rows) |-> CanonicalStop(a, t, rows[i].stop_id)]

-----------------------------------------------------------------------------
(* Route processing *)

\* the trips of a route, in trips.txt row order
route_trips(t, route_id) ==
    LET ts == JoinedTrips(t)
    IN  SelectRows(ts, {i \in 1..Len(ts) : ts[i].route_id = route_id})

trip_rows(t, trip_id) == {r \in JoinedStopTimes(t) : r.trip_id = trip_id}

\* trip = trips[trips.route_id == route_id].iloc[0]
representative_trip(t, route_id) == route_trips(t, route_id)[1]

\* stop_times[stop_times.trip_id == trip.trip_id].sort_values('stop_sequence')
stop_sequence(t, trip_id) ==
    LET rows == trip_rows(t, trip_id)
        ord == Ascending({r.stop_sequence : r \in rows})
    IN  [k \in 1..Len(ord) |-> CHOOSE r \in rows : r.stop_sequence = ord[k]]

\* a route is kept when it has a trip and its representative trip has at least 2 rows
RouteRetained(t, route_id) ==
    /\ route_trips(t, route_id) # <<>>
    /\ Len(stop_sequence(t, representative_trip(t, route_id).trip_id)) >= 2

\* the points of a shape in shape_pt_sequence order, as [lng, lat]
shape_points(t, shape_id) ==
    LET rows == {r \in SeqToSet(t.shapes.rows) : r.shape_id = shape_id}
        ord == Ascending({r.shape_pt_sequence : r \in rows})
    IN  [k \in 1..Len(ord) |->
            LET r == CHOOSE x \in rows : x.shape_pt_sequence = ord[k]
            IN  <<Round5(r.shape_pt_lon), Round5(r.shape_pt_lat)>>]

\* the fallback with the two coordinates of a point the other way round
fallback_lat_lng(t, seq) ==
    [k \in 1..Len(seq) |-> << Round5(stop_row(t, seq[k].stop_id).stop_lat),
                              Round5(stop_row(t, seq[k].stop_id).stop_lon) >>]
\* coords.append([stop.stop_lon, stop.stop_lat]) for each stop of the sequence
fallback_coords(t, seq) ==
    [k \in 1..Len(seq) |-> << Round5(stop_row(t, seq[k].stop_id).stop_lon),
                              Round5(stop_row(t, seq[k].stop_id).stop_lat) >>]

\* shape data when the feed has it and the trip refers to a shape, else the fallback
route_geometry(t, trip) ==
    IF t.shapes.present /\ trip.shape_id # NoShape
    THEN shape_points(t, trip.shape_id)
    ELSE fallback_coords(t, stop_sequence(t, trip.trip_id))

CanonicalRoute(a, t, route_id) ==
    LET rep == representative_trip(t, route_id)
        seq == stop_sequence(t, rep.trip_id)
    IN  [ route_id |-> route_id, agency |-> a, trip_id |-> rep.trip_id,
          geometry |-> route_geometry(t, rep),
          stops |-> [k \in 1..Len(seq) |-> [stop_id |-> seq[k].stop_id, seq |-> seq[k].stop_sequence]] ]

RouteBuilder(a, t) ==
    LET uniq == DropDuplicates(t.routes, "route_id")
        rows == SelectRows(uniq, {i \in 1..Len(uniq) : RouteRetained(t, uniq[i].route_id)})
    IN  [i \in 1..Len(rows) |-> CanonicalRoute(a, t, rows[i].route_id)]

-----------------------------------------------------------------------------
(* Timetable processing *)

\* the original (pre-modulo) value of a GTFS time, in seconds
TimeValue(gtfs_time) ==
    LET parts == Split(gtfs_time, ":")
    IN  ToInt(parts[1]) * 3600 + ToInt(parts[2]) * 60 + ToInt(parts[3])

CalendarRow(t, service_id) ==
    SelectRows(t.calendar, {i \in 1..Len(t.calendar) : t.calendar[i].service_id = service_id})

\* a weekday service only when all of Monday..Friday are active
weekday_service_all(t, service_id) ==
    \E c \in SeqToSet(CalendarRow(t, service_id)) : \A d \in 1..5 : c.days[d] = 1
\* (calendar.monday == 1) | ... | (calendar.friday == 1)
weekday_service(t, service_id) ==
    \E c \in SeqToSet(CalendarRow(t, service_id)) : \E d \in 1..5 : c.days[d] = 1
\* (calendar.saturday == 1) | (calendar.sunday == 1)
weekend_service(t, service_id) ==
    \E c \in SeqToSet(CalendarRow(t, service_id)) : \E d \in 6..7 : c.days[d] = 1

DayTypes == {"weekday", "weekend"}
\* a service without a calendar row taken to run every day
RunsOnOrUnlisted(t, service_id, day_type) ==
    \/ \A i \in 1..Len(t.calendar) : t.calendar[i].service_id # service_id
    \/ \E i \in 1..Len(t.calendar) :
          /\ t.calendar[i].service_id = service_id
          /\ \E d \in (IF day_type = "weekday" THEN 1..5 ELSE 6..7) : t.calendar[i].days[d] = 1
RunsOn(t, service_id, day_type) ==
    IF day_type = "weekday" THEN weekday_service(t, service_id) ELSE weekend_service(t, service_id)

\* the stop_times rows of one (stop, route, day-type) bucket
Bucket(t, stop_id, route_id, day_type) ==
    { x \in JoinedStopTimes(t) :
        /\ x.stop_id = stop_id
        /\ \E tr \in SeqToSet(JoinedTrips(t)) :
              /\ tr.trip_id = x.trip_id
              /\ tr.route_id = route_id
              /\ RunsOn(t, tr.service_id, day_type) }

\* one label per row, rows ascending by original value (equal values: by trip_id)
TimesOfAllRows(rows) ==
    LET pos == [r \in rows |-> Cardinality({x \in rows :
                   \/ TimeValue(x.departure_time) < TimeValue(r.departure_time)
                   \/ /\ TimeValue(x.departure_time) = TimeValue(r.departure_time)
                      /\ LexLess(x.trip_id, r.trip_id)})]
    IN  [k \in 1..Cardinality(rows) |->
            normalize_time((CHOOSE r \in rows : pos[r] = k - 1).departure_time)]
\* one label per distinct label, ascending by label text
TimesByLabel(rows) ==
    LET ls == {normalize_time(r.departure_time) : r \in rows}
    IN  [k \in 1..Cardinality(ls) |->
            CHOOSE l \in ls : Cardinality({x \in ls : LexLess(x, l)}) = k - 1]
\* one label per distinct original time, latest first
TimesLatestFirst(rows) ==
    LET vals == Ascending({TimeValue(r.departure_time) : r \in rows})
    IN  [k \in 1..Len(vals) |->
            normalize_time((CHOOSE r \in rows :
                               TimeValue(r.departure_time) = vals[Len(vals) + 1 - k]).departure_time)]
\* Normalized times of a bucket: rows with exactly the same original time count
\* once, and the entries are ordered by the original (pre-modulo) value.
BucketTimes(rows) ==
    LET vals == Ascending({TimeValue(r.departure_time) : r \in rows})
    IN  [k \in 1..Len(vals) |->
            normalize_time((CHOOSE r \in rows :
                               TimeValue(r.departure_time) = vals[k]).departure_time)]

\* the (stop, route) pairs joined by at least one stop_times row
StopRoutePairs(t) ==
    { <<x.stop_id, (CHOOSE tr \in SeqToSet(JoinedTrips(t)) : tr.trip_id = x.trip_id).route_id>> :
        x \in JoinedStopTimes(t) }

TimetableBuilder(t) ==
    { [ stop_id |-> p[1], route_id |-> p[2],
        weekday |-> BucketTimes(Bucket(t, p[1], p[2], "weekday")),
        weekend |-> BucketTimes(Bucket(t, p[1], p[2], "weekend")) ]
      : p \in StopRoutePairs(t) }

-----------------------------------------------------------------------------
(* Output assembly *)

NoTables == [none |-> TRUE]
NoOutput == [none |-> TRUE]

Succeeded(errs) == {a \in Agencies : errs[a] = "none"}

MergedStops(sr) == Concat([i \in 1..Len(AgencyOrder) |-> sr[AgencyOrder[i]]])
MergedRoutes(rr) == Concat([i \in 1..Len(AgencyOrder) |-> rr[AgencyOrder[i]]])

\* every route a stop lists is in the route collection, and every stop a route lists
\* is in the stop collection
IndexIntegrity(stops, routes) ==
    LET sids == {x.stop_id : x \in SeqToSet(stops)}
        rids == {x.route_id : x \in SeqToSet(routes)}
    IN  /\ \A s \in SeqToSet(stops) : s.routes \subseteq rids
        /\ \A r \in SeqToSet(routes) : \A i \in 1..Len(r.stops) : r.stops[i].stop_id \in sids

\* assembling without the check
SkipIntegrityCheck(stops, routes) == TRUE
\* the check the assembler makes before it emits anything
AssemblyCheck(stops, routes) == IndexIntegrity(stops, routes)

\* the six artifacts (metadata: the per-agency and total counts)
Assemble(sr, rr, tr) ==
    LET stops == MergedStops(sr)
        routes == MergedRoutes(rr)
        sids == {x.stop_id : x \in SeqToSet(stops)}
        rids == {x.route_id : x \in SeqToSet(routes)}
    IN  [ stops |-> stops,
          routes |-> routes,
          stop_to_routes |->
              [id \in sids |-> (CHOOSE x \in SeqToSet(stops) : x.stop_id = id).routes],
          route_to_stops |->
              [id \in rids |-> (CHOOSE x \in SeqToSet(routes) : x.route_id = id).stops],
          timetable |-> UNION {tr[a] : a \in Agencies},
          metadata |-> [ stop_count |-> [a \in Agencies |-> Len(sr[a])],
                         route_count |-> [a \in Agencies |-> Len(rr[a])],
                         total_stops |-> Len(stops), total_routes |-> Len(routes) ] ]

-----------------------------------------------------------------------------
(* The map UI: TransitContext state, reducer and filtered getters *)

TransitTypes == {"metro", "rail", "bus"}

\* null, for a stop id, a route id or an error message
Null == "null"
\* data: null
NullData == [none |-> TRUE]

\* The loaded TransitData the UI works on.  Stop M2 is a metro stop that the
\* rail route RB lists as well; L2 has an empty entry and B2 no entry in
\* stopToRoutes; RT is a tram route, a type the filters do not know.
UIData ==
    [ stops |-> << [stop_id |-> "M1", transit_type |-> "metro", routes |-> <<"RA">>],
                   [stop_id |-> "M2", transit_type |-> "metro", routes |-> <<"RA", "RB">>],
                   [stop_id |-> "L1", transit_type |-> "rail", routes |-> <<"RB">>],
                   [stop_id |-> "L2", transit_type |-> "rail", routes |-> <<>>],
                   [stop_id |-> "B1", transit_type |-> "bus", routes |-> <<"RC">>],
                   [stop_id |-> "B2", transit_type |-> "bus", routes |-> <<>>] >>,
      routes |-> << [route_id |-> "RA", type_name |-> "metro"],
                    [route_id |-> "RB", type_name |-> "rail"],
                    [route_id |-> "RC", type_name |-> "bus"],
                    [route_id |-> "RT", type_name |-> "tram"] >>,
      stopToRoutes |-> [id \in {"M1", "M2", "L1", "L2", "B1"} |->
                           CASE id = "M1" -> <<"RA">>
                             [] id = "M2" -> <<"RA", "RB">>
                             [] id = "L1" -> <<"RB">>
                             [] id = "L2" -> <<>>
                             [] id = "B1" -> <<"RC">>],
      routeToStops |-> [id \in {"RA", "RB", "RC"} |->
                           CASE id = "RA" -> << [stop_id |-> "M1", seq |-> 1], [stop_id |-> "M2", seq |-> 2] >>
                             [] id = "RB" -> << [stop_id |-> "L1", seq |-> 1], [stop_id |-> "M2", seq |-> 2] >>
                             [] id = "RC" -> << [stop_id |-> "B1", seq |-> 1] >>] ]

\* map[key] || []
Lookup(map, key) == IF key \in DOMAIN map THEN map[key] ELSE <<>>

initialState ==
    [ data |-> NullData,
      loading |-> TRUE,
      error |-> Null,
      filters |-> [metro |-> TRUE, rail |-> TRUE, bus |-> TRUE],
      selection |-> [selectedStop |-> Null, selectedRoute |-> Null, highlightedRoutes |-> <<>>],
      sidebarOpen |-> TRUE,
      visibleRoutes |-> {} ]

transitReducer(s, action) ==
    CASE action.type = "SET_DATA" ->
            [s EXCEPT !.data = action.payload, !.loading = FALSE, !.error = Null]
      [] action.type = "SET_LOADING" ->
            [s EXCEPT !.loading = action.payload]
      [] action.type = "SET_ERROR" ->
            [s EXCEPT !.error = action.payload, !.loading = FALSE]
      [] action.type = "TOGGLE_FILTER" ->
            [s EXCEPT !.filters = [s.filters EXCEPT ![action.payload] = ~s.filters[action.payload]]]
      [] action.type = "SET_FILTERS" ->
            [s EXCEPT !.filters = action.payload]
      [] action.type = "SELECT_STOP" ->
            LET stopRoutes == IF action.payload # Null /\ s.data # NullData
                              THEN Lookup(s.data.stopToRoutes, action.payload)
                              ELSE <<>>
            IN  [s EXCEPT !.selection = [selectedStop |-> action.payload,
                                         selectedRoute |-> Null,
                                         highlightedRoutes |-> stopRoutes],
                          !.visibleRoutes = IF action.payload # Null THEN SeqToSet(stopRoutes) ELSE {}]
      [] action.type = "SELECT_ROUTE" ->
            [s EXCEPT !.selection = [selectedStop |-> Null,
                                     selectedRoute |-> action.payload,
                                     highlightedRoutes |-> IF action.payload # Null
                                                           THEN <<action.payload>> ELSE <<>>],
                      !.visibleRoutes = IF action.payload # Null THEN {action.payload} ELSE {}]
      [] action.type = "SET_HIGHLIGHTED_ROUTES" ->
            [s EXCEPT !.selection = [s.selection EXCEPT !.highlightedRoutes = action.payload]]
      [] action.type = "TOGGLE_SIDEBAR" ->
            [s EXCEPT !.sidebarOpen = ~s.sidebarOpen]
      [] action.type = "OPEN_SIDEBAR" ->
            [s EXCEPT !.sidebarOpen = TRUE]
      [] action.type = "TOGGLE_ROUTE_VISIBILITY" ->
            [s EXCEPT !.visibleRoutes = IF action.payload \in s.visibleRoutes
                                        THEN s.visibleRoutes \ {action.payload}
                                        ELSE s.visibleRoutes \cup {action.payload}]
      [] action.type = "SET_VISIBLE_ROUTES" ->
            [s EXCEPT !.visibleRoutes = action.payload]
      [] action.type = "CLEAR_SELECTION" ->
            [s EXCEPT !.selection = [selectedStop |-> Null, selectedRoute |-> Null,
                                     highlightedRoutes |-> <<>>],
                      !.visibleRoutes = {}]
      [] OTHER -> s

\* state.filters[type], undefined for a type the filters do not have
FilterOn(s, type) == type \in DOMAIN s.filters /\ s.filters[type]

isRouteVisible(s, routeId) ==
    IF s.visibleRoutes = {} THEN TRUE ELSE routeId \in s.visibleRoutes

\* the stops of the routes in visibleRoutes, and the selected stop
relevantStopIds(s) ==
    {s.selection.selectedStop}
    \cup UNION { {x.stop_id : x \in SeqToSet(Lookup(s.data.routeToStops, routeId))} :
                   routeId \in s.visibleRoutes }

routeStopIds(s) ==
    {x.stop_id : x \in SeqToSet(Lookup(s.data.routeToStops, s.selection.selectedRoute))}

getFilteredStops(s) ==
    IF s.data = NullData THEN <<>>
    ELSE LET features == s.data.stops
         IN  IF s.selection.selectedRoute # Null
             THEN SelectRows(features, {i \in 1..Len(features) :
                      /\ FilterOn(s, features[i].transit_type)
                      /\ features[i].stop_id \in routeStopIds(s)})
             ELSE IF s.selection.selectedStop # Null /\ s.visibleRoutes # {}
             THEN SelectRows(features, {i \in 1..Len(features) :
                      /\ FilterOn(s, features[i].transit_type)
                      /\ features[i].stop_id \in relevantStopIds(s)})
             ELSE SelectRows(features, {i \in 1..Len(features) :
                      FilterOn(s, features[i].transit_type)})

getFilteredRoutes(s) ==
    IF s.data = NullData THEN <<>>
    ELSE LET features == s.data.routes
         IN  SelectRows(features, {i \in 1..Len(features) :
                 /\ FilterOn(s, features[i].type_name)
                 /\ (s.visibleRoutes # {} => features[i].route_id \in s.visibleRoutes)})

\* a StopLayer that takes every stop of the data, whatever is selected
allStopsOfData(s) == IF s.data = NullData THEN <<>> ELSE s.data.stops

\* StopLayer: the stops it makes markers for
allStops(s) ==
    IF s.data = NullData THEN <<>>
    ELSE LET features == s.data.stops
         IN  IF s.selection.selectedRoute # Null
             THEN SelectRows(features, {i \in 1..Len(features) :
                      features[i].stop_id \in routeStopIds(s)})
             ELSE IF s.selection.selectedStop # Null /\ s.visibleRoutes # {}
             THEN SelectRows(features, {i \in 1..Len(features) :
                      features[i].stop_id \in relevantStopIds(s)})
             ELSE features

\* a marker shown whatever the filters say
alwaysVisible(s, stop) == TRUE
\* the isVisible prop StopLayer hands to the marker of a stop: state.filters.metro
\* for the metro stops, .rail for the rail stops, .bus for the bus stops
isVisible(s, stop) == FilterOn(s, stop.transit_type)

\* StopLayer: the markers drawn (StopMarker returns null when !isVisible)
StopLayer(s) ==
    LET stops == allStops(s)
    IN  SelectRows(stops, {i \in 1..Len(stops) :
            /\ stops[i].transit_type \in TransitTypes
            /\ isVisible(s, stops[i])})

\* a dispatch whose SELECT_STOP leaves the selected route in the selection
DispatchKeepingRoute(action) ==
    /\ state' = LET next == transitReducer(state, action)
                IN  IF action.type = "SELECT_STOP"
                    THEN [next EXCEPT !.selection.selectedRoute = state.selection.selectedRoute]
                    ELSE next
    /\ UNCHANGED nonUiVars

\* dispatch(action)
Dispatch(action) ==
    /\ state' = transitReducer(state, action)
    /\ UNCHANGED nonUiVars

UiIdle == state = initialState

-----------------------------------------------------------------------------
(* The output directory *)

\* the six files, in the order they are written
OutputFiles == <<"stops.geojson", "routes.geojson", "stop_to_routes.json",
                 "route_to_stops.json", "timetable.json", "metadata.json">>
FileNames == {OutputFiles[i] : i \in 1..Len(OutputFiles)}

\* the path the consumer fetches, and the temporary path next to it
FinalPath(f) == <<"data", f>>
TempPath(f) == <<"tmp", f>>
Paths == {FinalPath(f) : f \in FileNames} \cup {TempPath(f) : f \in FileNames}

NoFile == [none |-> TRUE]
NoRead == [none |-> TRUE]

\* the artifact that goes into a file
ArtifactOf(art, f) ==
    CASE f = "stops.geojson" -> art.stops
      [] f = "routes.geojson" -> art.routes
      [] f = "stop_to_routes.json" -> art.stop_to_routes
      [] f = "route_to_stops.json" -> art.route_to_stops
      [] f = "timetable.json" -> art.timetable
      [] f = "metadata.json" -> art.metadata

\* a file of this run: all of the artifact, or only a first part of it
NewFile(art, f, complete) == [run |-> "this", data |-> ArtifactOf(art, f), complete |-> complete]
\* the complete file an earlier run left
PreviousFile(f) == [run |-> "previous", data |-> <<>>, complete |-> TRUE]

\* the directory after all files of art are in place
DiskAfter(art) ==
    [p \in Paths |-> IF p[1] = "data" THEN NewFile(art, p[2], TRUE) ELSE NoFile]

\* the directory before the first run, and after an earlier run
EmptyDisk == [p \in Paths |-> NoFile]
PreviousDisk == [p \in Paths |-> IF p[1] = "data" THEN PreviousFile(p[2]) ELSE NoFile]

FileIdle == disk = EmptyDisk /\ wstep = 0 /\ seen = NoRead

-----------------------------------------------------------------------------
(* The data loader of the map (lib/dataLoader.ts) and the load effect *)

\* the two runs of the mount effect's load() (React runs the effect of a
\* component again when it mounts it a second time), and a later direct call
EffectCalls == {"mount", "remount"}
LoadCalls == EffectCalls \cup {"later"}

\* let cachedData = null
NoObject == [made_by |-> "nobody", parts |-> {}, data |-> NullData]
\* the TransitData object that the call of caller c builds from its six responses
Loaded(c, parts) == [made_by |-> c, parts |-> parts, data |-> UIData]

\* a call not made yet
IdleCall == [pc |-> "idle", issued |-> {}, pending |-> {}, fulfilled |-> {}, ret |-> NoObject]

LoadIdle == cachedData = NoObject /\ call = [c \in LoadCalls |-> IdleCall]

isDataLoaded == cachedData # NoObject
getCachedData == cachedData

\* if (cachedData)
CacheHit == cachedData # NoObject

\* loadTransitData() is called: the cached object is returned if there is one,
\* otherwise the six files are fetched in parallel
loadTransitData(c) ==
    /\ call[c].pc = "idle"
    /\ c = "remount" => call["mount"].pc # "idle"
    /\ c = "later" => \A e \in EffectCalls : call[e].pc \notin {"idle", "fetching"}
    /\ call' = [call EXCEPT ![c] =
                   IF CacheHit
                   THEN [pc |-> "resolved", issued |-> {}, pending |-> {}, fulfilled |-> {},
                         ret |-> cachedData]
                   ELSE [pc |-> "fetching", issued |-> FileNames, pending |-> FileNames,
                         fulfilled |-> {}, ret |-> NoObject]]
    /\ UNCHANGED <<cachedData, nonLoadVars>>

\* the file whose response a call gets next: responses come back in the
\* order the fetches were issued in
NextResponse(c) ==
    OutputFiles[CHOOSE i \in 1..Len(OutputFiles) :
                    /\ OutputFiles[i] \in call[c].pending
                    /\ \A j \in 1..(i - 1) : OutputFiles[j] \notin call[c].pending]

\* fetchJson of one file of a call comes back with response.ok
FetchFulfilled(c, f) ==
    /\ call[c].pc = "fetching"
    /\ f \in call[c].pending
    /\ f = NextResponse(c)
    /\ call' = [call EXCEPT ![c].pending = @ \ {f}, ![c].fulfilled = @ \cup {f}]
    /\ UNCHANGED <<cachedData, nonLoadVars>>

\* fetchJson of one file throws (or the fetch itself fails), at any time:
\* Promise.all rejects and with it the call; cachedData is not assigned, and
\* the responses still to come are dropped
FetchRejected(c, f) ==
    /\ call[c].pc = "fetching"
    /\ f \in call[c].pending
    /\ call' = [call EXCEPT ![c].pc = "rejected", ![c].pending = {}]
    /\ UNCHANGED <<cachedData, nonLoadVars>>

\* all six came back: the call goes on after the await, assigns cachedData
\* and returns it
AssignCache(c) ==
    /\ call[c].pc = "fetching"
    /\ call[c].pending = {}
    /\ cachedData' = Loaded(c, call[c].fulfilled)
    /\ call' = [call EXCEPT ![c].pc = "resolved", ![c].ret = Loaded(c, call[c].fulfilled)]
    /\ UNCHANGED nonLoadVars

clearCache ==
    /\ cachedData' = NoObject
    /\ UNCHANGED <<call, nonLoadVars>>

\* load() of the mount effect goes on after its await: SET_DATA with what the
\* call returned, or SET_ERROR in the catch
LoadSettled(c) ==
    /\ c \in EffectCalls
    /\ call[c].pc \in {"resolved", "rejected"}
    /\ state' = transitReducer(state,
                    IF call[c].pc = "resolved"
                    THEN [type |-> "SET_DATA", payload |-> call[c].ret.data]
                    ELSE [type |-> "SET_ERROR", payload |-> "Failed to fetch"])
    /\ call' = [call EXCEPT ![c].pc = "dispatched"]
    /\ UNCHANGED <<cachedData, outsideUiVars>>

-----------------------------------------------------------------------------
(* The SearchBox component and the FilterControls buttons *)

\* properties.name of the stops, and name / short_name / long_name of the routes
StopName(id) ==
    CASE id = "M1" -> <<"A", "m", "e">>
      [] id = "M2" -> <<"L", "a", "k">>
      [] id = "L1" -> <<"L", "i", "n">>
      [] id = "L2" -> <<"B", "e", "g">>
      [] id = "B1" -> <<"A", "m", "b">>
      [] id = "B2" -> <<"K", "o", "t">>
RouteNames(id) ==
    CASE id = "RA" -> [name |-> <<"R", "e", "d">>, short_name |-> <<"R">>, long_name |-> <<"A", "m", "e">>]
      [] id = "RB" -> [name |-> <<"M", "M">>, short_name |-> <<"L", "F">>, long_name |-> <<"L", "i", "n">>]
      [] id = "RC" -> [name |-> <<"2", "9">>, short_name |-> <<"2", "9">>, long_name |-> <<"K", "o", "t">>]
      [] id = "RT" -> [name |-> <<"T", "r">>, short_name |-> <<"T">>, long_name |-> <<"T", "r", "a", "m">>]

\* String.prototype.toLowerCase, trim and includes
LowerOf(ch) ==
    CASE ch = "A" -> "a" [] ch = "B" -> "b" [] ch = "F" -> "f" [] ch = "K" -> "k"
      [] ch = "L" -> "l" [] ch = "M" -> "m" [] ch = "R" -> "r" [] ch = "T" -> "t"
      [] OTHER -> ch
toLowerCase(str) == [i \in 1..Len(str) |-> LowerOf(str[i])]

RECURSIVE trimStart(_)
trimStart(str) ==
    IF str # <<>> /\ Head(str) = " " THEN trimStart(Tail(str)) ELSE str
RECURSIVE trimEnd(_)
trimEnd(str) ==
    IF str # <<>> /\ str[Len(str)] = " " THEN trimEnd(SubSeq(str, 1, Len(str) - 1)) ELSE str
trim(str) == trimEnd(trimStart(str))

includes(text, part) ==
    \E i \in 0..(Len(text) - Len(part)) : SubSeq(text, i + 1, i + Len(part)) = part

normalizeSearchString(str) == trim(toLowerCase(str))
matchesSearch(text, query) ==
    includes(normalizeSearchString(text), normalizeSearchString(query))

\* const [query, ...] = useState(''), isOpen false, selectedIndex -1, category 'all'
initialBox == [query |-> <<>>, isOpen |-> FALSE, selectedIndex |-> -1, category |-> "all"]
BoxIdle == box = initialBox

\* 'all' unless exactly one transit type is switched on
activeTransitFilter(s) ==
    LET enabledCount == Cardinality({t \in TransitTypes : s.filters[t]})
    IN  IF enabledCount = 0 \/ enabledCount = Cardinality(TransitTypes) THEN "all"
        ELSE IF s.filters["metro"] /\ ~s.filters["rail"] /\ ~s.filters["bus"] THEN "metro"
        ELSE IF s.filters["rail"] /\ ~s.filters["metro"] /\ ~s.filters["bus"] THEN "rail"
        ELSE IF s.filters["bus"] /\ ~s.filters["metro"] /\ ~s.filters["rail"] THEN "bus"
        ELSE "all"
\* the first n rows of a list (the loops stop at maxStops / maxRoutes results)
FirstRows(rows, n) == SubSeq(rows, 1, IF Len(rows) < n THEN Len(rows) ELSE n)

\* the results list of the SearchBox: stops first, then routes
results(s, b) ==
    IF s.data = NullData THEN <<>>
    ELSE LET lowerQuery == trim(toLowerCase(b.query))
             hasQuery == Len(lowerQuery) >= 2
             active == activeTransitFilter(s)
             stops == s.data.stops
             routes == s.data.routes
             maxStops == IF b.category = "stops" THEN 20 ELSE 8
             maxRoutes == IF b.category = "routes" THEN 20 ELSE 8
             stopHits == SelectRows(stops, {i \in 1..Len(stops) :
                             /\ active = "all" \/ stops[i].transit_type = active
                             /\ ~hasQuery \/ matchesSearch(StopName(stops[i].stop_id), lowerQuery)})
             routeHits == SelectRows(routes, {i \in 1..Len(routes) :
                             /\ active = "all" \/ routes[i].type_name = active
                             /\ \/ ~hasQuery
                                \/ matchesSearch(RouteNames(routes[i].route_id).name, lowerQuery)
                                \/ matchesSearch(RouteNames(routes[i].route_id).short_name, lowerQuery)
                                \/ matchesSearch(RouteNames(routes[i].route_id).long_name, lowerQuery)})
             stopResults == [i \in 1..Len(stopHits) |->
                                [type |-> "stop", id |-> stopHits[i].stop_id,
                                 transitType |-> stopHits[i].transit_type]]
             routeResults == [i \in 1..Len(routeHits) |->
                                [type |-> "route", id |-> routeHits[i].route_id,
                                 transitType |-> routeHits[i].type_name]]
         IN  (IF b.category \in {"all", "stops"} THEN FirstRows(stopResults, maxStops) ELSE <<>>)
             \o (IF b.category \in {"all", "routes"} THEN FirstRows(routeResults, maxRoutes) ELSE <<>>)

\* one toggleFilter(t) call if the condition in front of it holds
ToggleIf(cond, t) == IF cond THEN <<t>> ELSE <<>>

\* a type button that switches the others off and forgets to switch its own type on
typeButtonTogglesOthersOnly(s, type) ==
    IF type = "all" \/ activeTransitFilter(s) = type
    THEN ToggleIf(~s.filters["metro"], "metro") \o ToggleIf(~s.filters["rail"], "rail")
         \o ToggleIf(~s.filters["bus"], "bus")
    ELSE ToggleIf(s.filters["metro"] /\ type # "metro", "metro")
         \o ToggleIf(s.filters["rail"] /\ type # "rail", "rail")
         \o ToggleIf(s.filters["bus"] /\ type # "bus", "bus")

\* the toggleFilter calls the onClick of a transit type button makes, in order;
\* every condition reads the filters of the render the button belongs to
typeButtonToggles(s, type) ==
    IF type = "all" \/ activeTransitFilter(s) = type
    THEN ToggleIf(~s.filters["metro"], "metro") \o ToggleIf(~s.filters["rail"], "rail")
         \o ToggleIf(~s.filters["bus"], "bus")
    ELSE ToggleIf(s.filters["metro"] /\ type # "metro", "metro")
         \o ToggleIf(s.filters["rail"] /\ type # "rail", "rail")
         \o ToggleIf(s.filters["bus"] /\ type # "bus", "bus")
         \o ToggleIf(~s.filters[type], type)

\* the reducer applied to one TOGGLE_FILTER after the other
RECURSIVE toggleAll(_, _)
toggleAll(s, types) ==
    IF types = <<>> THEN s
    ELSE toggleAll(transitReducer(s, [type |-> "TOGGLE_FILTER", payload |-> Head(types)]), Tail(types))

\* the TransitState after a click on the button of type ('all' or a transit type)
AfterTypeButton(s, type) == toggleAll(s, typeButtonToggles(s, type))

\* HomePage shows the map, the sidebar and the controls only when the state
\* is neither loading nor in error
UiShown == ~state.loading /\ state.error = Null

\* the input's onChange
TypeQuery(q) ==
    /\ UiShown
    /\ box' = [box EXCEPT !.query = q, !.isOpen = TRUE, !.selectedIndex = -1]
    /\ UNCHANGED <<state, outsideBoxVars>>

\* the input's onFocus
FocusInput ==
    /\ UiShown
    /\ box' = [box EXCEPT !.isOpen = TRUE]
    /\ UNCHANGED <<state, outsideBoxVars>>

\* mousedown outside of the input and the list
ClickOutside ==
    /\ UiShown
    /\ box' = [box EXCEPT !.isOpen = FALSE]
    /\ UNCHANGED <<state, outsideBoxVars>>

\* the clear button, shown while there is a query
ClearQuery ==
    /\ UiShown
    /\ box.query # <<>>
    /\ box' = [box EXCEPT !.query = <<>>, !.selectedIndex = -1]
    /\ UNCHANGED <<state, outsideBoxVars>>

\* a category button
SetCategory(cat) ==
    /\ UiShown
    /\ box' = [box EXCEPT !.category = cat, !.selectedIndex = -1]
    /\ UNCHANGED <<state, outsideBoxVars>>

\* a transit type button of the SearchBox
TypeButton(type) ==
    /\ UiShown
    /\ state' = AfterTypeButton(state, type)
    /\ box' = [box EXCEPT !.selectedIndex = -1]
    /\ UNCHANGED outsideBoxVars

\* handleSelect(result)
handleSelect(result) ==
    /\ state' = transitReducer(state,
                    [type |-> IF result.type = "stop" THEN "SELECT_STOP" ELSE "SELECT_ROUTE",
                     payload |-> result.id])
    /\ box' = [box EXCEPT !.query = <<>>, !.isOpen = FALSE, !.selectedIndex = -1]
    /\ UNCHANGED outsideBoxVars

\* handleKeyDown returns at once unless the list is open and has results
KeysHandled == UiShown /\ box.isOpen /\ results(state, box) # <<>>

\* Enter takes results[selectedIndex] only for an index inside the list
EnterSelects == box.selectedIndex >= 0 /\ box.selectedIndex < Len(results(state, box))

ArrowDown ==
    /\ KeysHandled
    /\ box' = [box EXCEPT !.selectedIndex =
                  IF @ < Len(results(state, box)) - 1 THEN @ + 1 ELSE @]
    /\ UNCHANGED <<state, outsideBoxVars>>

ArrowUp ==
    /\ KeysHandled
    /\ box' = [box EXCEPT !.selectedIndex = IF @ > 0 THEN @ - 1 ELSE @]
    /\ UNCHANGED <<state, outsideBoxVars>>

Enter ==
    /\ KeysHandled
    /\ IF EnterSelects
       THEN handleSelect(results(state, box)[box.selectedIndex + 1])
       ELSE UNCHANGED vars

Escape ==
    /\ KeysHandled
    /\ box' = [box EXCEPT !.isOpen = FALSE, !.selectedIndex = -1]
    /\ UNCHANGED <<state, outsideBoxVars>>

\* a click on a row of the open list
ClickResult(i) ==
    /\ UiShown
    /\ box.isOpen
    /\ i \in 1..Len(results(state, box))
    /\ handleSelect(results(state, box)[i])

\* a button of FilterControls
FilterButton(t) == UiShown /\ Dispatch([type |-> "TOGGLE_FILTER", payload |-> t])

\* the load effect hands the data over
DataArrives ==
    /\ state.data = NullData
    /\ Dispatch([type |-> "SET_DATA", payload |-> UIData])

-----------------------------------------------------------------------------
(* The sidebar, the route list, the info panels and the map layers *)

\* Sidebar: hasSelection
hasSelection(s) == s.selection.selectedStop # Null \/ s.selection.selectedRoute # Null

\* a sidebar that shows the route list next to the info panel of a selection
RouteListAlwaysShown(s) == TRUE
\* Sidebar: {!hasSelection && <RouteList />}
RouteListShown(s) == ~hasSelection(s)

\* RouteList: the ids it lists, the routes of the enabled types in their groups
allRoutesForTypes(s) ==
    IF s.data = NullData THEN {}
    ELSE {x.route_id : x \in {y \in SeqToSet(s.data.routes) :
                                 FilterOn(s, y.type_name) /\ y.type_name \in TransitTypes}}

\* getSelectedStopData / getSelectedRouteData: the feature, if the data has it
SelectedStopRows(s) ==
    IF s.data = NullData THEN {}
    ELSE {x \in SeqToSet(s.data.stops) : x.stop_id = s.selection.selectedStop}
SelectedRouteRows(s) ==
    IF s.data = NullData THEN {}
    ELSE {x \in SeqToSet(s.data.routes) : x.route_id = s.selection.selectedRoute}

\* RouteList: a click on a route row, and on its visibility box
RouteListClick(r) ==
    /\ UiShown
    /\ RouteListShown(state)
    /\ r \in allRoutesForTypes(state)
    /\ Dispatch([type |-> "SELECT_ROUTE", payload |-> r])

RouteListToggle(r) ==
    /\ UiShown
    /\ RouteListShown(state)
    /\ r \in allRoutesForTypes(state)
    /\ Dispatch([type |-> "TOGGLE_ROUTE_VISIBILITY", payload |-> r])

\* StopInfo: a click on one of the routes serving the selected stop
StopInfoRouteClick(r) ==
    /\ UiShown
    /\ state.selection.selectedStop # Null
    /\ \E x \in SelectedStopRows(state) :
          /\ r \in SeqToSet(x.routes)
          /\ r \in {y.route_id : y \in SeqToSet(state.data.routes)}
    /\ Dispatch([type |-> "SELECT_ROUTE", payload |-> r])

\* RouteInfo: a click on one of the stops of the selected route
RouteInfoStopClick(id) ==
    /\ UiShown
    /\ state.selection.selectedRoute # Null
    /\ SelectedRouteRows(state) # {}
    /\ id \in routeStopIds(state)
    /\ Dispatch([type |-> "SELECT_STOP", payload |-> id])

\* StopLayer: a click on a marker; RouteLayer: a click on a polyline
MarkerClick(id) ==
    /\ UiShown
    /\ id \in {x.stop_id : x \in SeqToSet(StopLayer(state))}
    /\ Dispatch([type |-> "SELECT_STOP", payload |-> id])

PolylineClick(r) ==
    /\ UiShown
    /\ r \in {x.route_id : x \in SeqToSet(getFilteredRoutes(state))}
    /\ Dispatch([type |-> "SELECT_ROUTE", payload |-> r])

\* 'Clear Selection' in the sidebar and the 'Clear' pill of the page
ClearButton ==
    /\ UiShown
    /\ hasSelection(state)
    /\ Dispatch([type |-> "CLEAR_SELECTION"])

\* the toggle in the sidebar header, and the menu button of the page
SidebarToggle == UiShown /\ Dispatch([type |-> "TOGGLE_SIDEBAR"])
SidebarOpen == UiShown /\ ~state.sidebarOpen /\ Dispatch([type |-> "OPEN_SIDEBAR"])

-----------------------------------------------------------------------------
(* The run: one feed after the other, then assembly and output *)

NotRun == <<"NotRun">>
NoTime == <<>>

\* nothing processed yet; st is where the run stands
RunStartAt(fs, st) ==
    /\ feeds = fs
    /\ stage = st
    /\ cur = 1
    /\ feed_error = [a \in Agencies |-> "none"]
    /\ tables = [a \in Agencies |-> NoTables]
    /\ stop_res = [a \in Agencies |-> <<>>]
    /\ route_res = [a \in Agencies |-> <<>>]
    /\ tt_res = [a \in Agencies |-> {}]
    /\ artifacts = NoOutput
    /\ run_error = "none"
    /\ exit_status = -1
    /\ written = NoOutput

RunStart(fs) == RunStartAt(fs, "load")

TimeIdle == tin = NoTime /\ tout = NotRun /\ tout2 = NotRun

\* the run does not use workers
ParIdle == worker = [a \in Agencies |-> "idle"] /\ finish_order = <<>>

Agency == AgencyOrder[cur]

\* the main loop moves on to the next feed, or to assembly after the last one
NextFeed ==
    IF cur < Len(AgencyOrder)
    THEN cur' = cur + 1 /\ stage' = "load"
    ELSE cur' = cur /\ stage' = "assemble"

\* Feed Loader: a required table missing or unparsable fails this feed only
LoadFeed ==
    /\ stage = "load"
    /\ IF feeds[Agency].health = "missing_table"
       THEN /\ feed_error' = [feed_error EXCEPT ![Agency] = "FeedLoadError"]
            /\ NextFeed
       ELSE /\ stage' = "validate"
            /\ UNCHANGED <<feed_error, cur>>
    /\ UNCHANGED <<feeds, tables, stop_res, route_res, tt_res, artifacts, run_error,
                   exit_status, written>>
    /\ UNCHANGED nonPipeVars

\* Feed Validator: a required column missing fails this feed only
ValidateFeed ==
    /\ stage = "validate"
    /\ IF feeds[Agency].health = "missing_column"
       THEN /\ feed_error' = [feed_error EXCEPT ![Agency] = "ValidationError"]
            /\ NextFeed
       ELSE /\ stage' = "namespace"
            /\ UNCHANGED <<feed_error, cur>>
    /\ UNCHANGED <<feeds, tables, stop_res, route_res, tt_res, artifacts, run_error,
                   exit_status, written>>
    /\ UNCHANGED nonPipeVars

NamespaceFeed ==
    /\ stage = "namespace"
    /\ tables' = [tables EXCEPT ![Agency] = NamespaceTables(Agency, feeds[Agency].bundle)]
    /\ stage' = "stops"
    /\ UNCHANGED <<feeds, cur, feed_error, stop_res, route_res, tt_res, artifacts, run_error,
                   exit_status, written>>
    /\ UNCHANGED nonPipeVars

ResolveStops ==
    /\ stage = "stops"
    /\ stop_res' = [stop_res EXCEPT ![Agency] = StopResolver(Agency, tables[Agency])]
    /\ stage' = "routes"
    /\ UNCHANGED <<feeds, cur, feed_error, tables, route_res, tt_res, artifacts, run_error,
                   exit_status, written>>
    /\ UNCHANGED nonPipeVars

BuildRoutes ==
    /\ stage = "routes"
    /\ route_res' = [route_res EXCEPT ![Agency] = RouteBuilder(Agency, tables[Agency])]
    /\ stage' = "timetable"
    /\ UNCHANGED <<feeds, cur, feed_error, tables, stop_res, tt_res, artifacts, run_error,
                   exit_status, written>>
    /\ UNCHANGED nonPipeVars

BuildTimetable ==
    /\ stage = "timetable"
    /\ tt_res' = [tt_res EXCEPT ![Agency] = TimetableBuilder(tables[Agency])]
    /\ NextFeed
    /\ UNCHANGED <<feeds, feed_error, tables, stop_res, route_res, artifacts, run_error,
                   exit_status, written>>
    /\ UNCHANGED nonPipeVars

\* Output Assembler: fails the run when no feed succeeded or the indexes are inconsistent
AssembleOutput ==
    /\ stage = "assemble"
    /\ IF Succeeded(feed_error) = {}
       THEN /\ run_error' = "NoFeedSucceeded"
            /\ exit_status' = 1
            /\ stage' = "done"
            /\ UNCHANGED artifacts
       ELSE IF ~AssemblyCheck(MergedStops(stop_res), MergedRoutes(route_res))
       THEN /\ run_error' = "IndexIntegrityError"
            /\ exit_status' = 1
            /\ stage' = "done"
            /\ UNCHANGED artifacts
       ELSE /\ artifacts' = Assemble(stop_res, route_res, tt_res)
            /\ stage' = "write"
            /\ UNCHANGED <<run_error, exit_status>>
    /\ UNCHANGED <<feeds, cur, feed_error, tables, stop_res, route_res, tt_res, written>>
    /\ UNCHANGED nonPipeVars

\* the files are written in one final step, then the process exits with 0
WriteOutput ==
    /\ stage = "write"
    /\ written' = artifacts
    /\ disk' = DiskAfter(artifacts)
    /\ wstep' = 3 * Len(OutputFiles)
    /\ exit_status' = 0
    /\ stage' = "done"
    /\ UNCHANGED <<feeds, cur, feed_error, tables, stop_res, route_res, tt_res, artifacts,
                   run_error>>
    /\ UNCHANGED <<seen>>
    /\ UNCHANGED nonFileVars

RunNext ==
    \/ LoadFeed
    \/ ValidateFeed
    \/ NamespaceFeed
    \/ ResolveStops
    \/ BuildRoutes
    \/ BuildTimetable
    \/ AssembleOutput
    \/ WriteOutput

-----------------------------------------------------------------------------
(* normalize_time applied to a GTFS time, and again to its own result *)

RunOff ==
    /\ feeds = [a \in Agencies |-> Feed("missing_table", NoTables)]
    /\ stage = "off"
    /\ cur = 1
    /\ feed_error = [a \in Agencies |-> "none"]
    /\ tables = [a \in Agencies |-> NoTables]
    /\ stop_res = [a \in Agencies |-> <<>>]
    /\ route_res = [a \in Agencies |-> <<>>]
    /\ tt_res = [a \in Agencies |-> {}]
    /\ artifacts = NoOutput
    /\ run_error = "none"
    /\ exit_status = -1
    /\ written = NoOutput

NormalizeOnce ==
    /\ tin # NoTime
    /\ tout = NotRun
    /\ tout' = normalize_time(tin)
    /\ UNCHANGED <<tin, tout2>>
    /\ UNCHANGED nonTimeVars

NormalizeAgain ==
    /\ tout # NotRun
    /\ tout2 = NotRun
    /\ tout2' = normalize_time(tout)
    /\ UNCHANGED <<tin, tout>>
    /\ UNCHANGED nonTimeVars

\* H:MM:SS texts with H in 0..MaxHour, written with and without a leading zero
HourTexts == {Dec(h) : h \in 0..MaxHour} \cup {Fmt02d(h) : h \in 0..MaxHour}
MinuteTexts == {<<"0", "0">>, <<"0", "5">>, <<"3", "0">>, <<"5", "9">>}
SecondTexts == {<<"0", "0">>, <<"3", "0">>}
GtfsTimes == {h \o <<":">> \o m \o <<":">> \o s : h \in HourTexts, m \in MinuteTexts, s \in SecondTexts}

\* first departures that meet, wrap past midnight or fall on one label
TimePool ==
    { <<"0", "8", ":", "1", "5", ":", "0", "0">>, <<"8", ":", "1", "5", ":", "0", "0">>,
      <<"2", "3", ":", "5", "0", ":", "0", "0">>, <<"2", "5", ":", "1", "0", ":", "0", "0">>,
      <<"0", "1", ":", "3", "0", ":", "0", "0">>, <<"2", "5", ":", "3", "0", ":", "0", "0">> }

\* departures of the daily trip: a late evening one, one past midnight and its next-day label
DailyTimePool ==
    { <<"2", "3", ":", "5", "0", ":", "0", "0">>, <<"2", "5", ":", "3", "0", ":", "0", "0">>,
      <<"0", "1", ":", "3", "0", ":", "0", "0">> }

\* feeds that differ in the departure times and the services of the trips of route 1
TimesBundles ==
    { Bundle(0, <<1, 2>>, <<1, 2>>, <<d1, d2, d3>>, <<s1, s2, <<"D", "L", "Y">>>>) :
        d1 \in TimePool, d2 \in TimePool, d3 \in DailyTimePool, s1 \in ServiceIds, s2 \in ServiceIds }

InitTimes ==
    \/ /\ \E b \in TimesBundles :
             RunStart([a \in Agencies |->
                          Feed(CASE a = "HMRL" -> "ok"
                                 [] a = "MMTS" -> "missing_table"
                                 [] a = "TGSRTC" -> "missing_column", b)])
       /\ TimeIdle
       /\ ParIdle
       /\ FileIdle
       /\ UiIdle
       /\ LoadIdle
       /\ BoxIdle
    \/ /\ RunOff
       /\ tin \in GtfsTimes
       /\ tout = NotRun
       /\ tout2 = NotRun
       /\ ParIdle
       /\ FileIdle
       /\ UiIdle
       /\ LoadIdle
       /\ BoxIdle

NextTimes == RunNext \/ NormalizeOnce \/ NormalizeAgain

SpecTimes == InitTimes /\ [][NextTimes]_vars

-----------------------------------------------------------------------------
\* every agency delivers a bundle of the same local content: the feeds reuse
\* each other's local ids
Init ==
    /\ \E h \in [Agencies -> Health], b \in TopologyBundles \cup GeoBundles :
          RunStart([a \in Agencies |-> Feed(h[a], b)])
    /\ TimeIdle
    /\ ParIdle
    /\ FileIdle
    /\ UiIdle
    /\ LoadIdle
    /\ BoxIdle

Next == RunNext

Spec == Init /\ [][Next]_vars

-----------------------------------------------------------------------------
(* The per-agency stages as parallel workers, joined before assembly.  Each  *)
(* worker reads its own feed and writes its own agency's results only.       *)

\* the worker of agency a ends: its result is complete, or its feed failed
WorkerEnds(a, how) ==
    /\ worker' = [worker EXCEPT ![a] = how]
    /\ finish_order' = Append(finish_order, a)

WorkerMoves(a, to) ==
    /\ worker' = [worker EXCEPT ![a] = to]
    /\ UNCHANGED finish_order

WorkerLoad(a) ==
    /\ worker[a] = "load"
    /\ IF feeds[a].health = "missing_table"
       THEN /\ feed_error' = [feed_error EXCEPT ![a] = "FeedLoadError"]
            /\ WorkerEnds(a, "failed")
       ELSE /\ WorkerMoves(a, "validate")
            /\ UNCHANGED feed_error
    /\ UNCHANGED <<feeds, stage, cur, tables, stop_res, route_res, tt_res, artifacts, run_error,
                   exit_status, written>>
    /\ UNCHANGED nonParVars

WorkerValidate(a) ==
    /\ worker[a] = "validate"
    /\ IF feeds[a].health = "missing_column"
       THEN /\ feed_error' = [feed_error EXCEPT ![a] = "ValidationError"]
            /\ WorkerEnds(a, "failed")
       ELSE /\ WorkerMoves(a, "namespace")
            /\ UNCHANGED feed_error
    /\ UNCHANGED <<feeds, stage, cur, tables, stop_res, route_res, tt_res, artifacts, run_error,
                   exit_status, written>>
    /\ UNCHANGED nonParVars

WorkerNamespace(a) ==
    /\ worker[a] = "namespace"
    /\ tables' = [tables EXCEPT ![a] = NamespaceTables(a, feeds[a].bundle)]
    /\ WorkerMoves(a, "stops")
    /\ UNCHANGED <<feeds, stage, cur, feed_error, stop_res, route_res, tt_res, artifacts,
                   run_error, exit_status, written>>
    /\ UNCHANGED nonParVars

WorkerStops(a) ==
    /\ worker[a] = "stops"
    /\ stop_res' = [stop_res EXCEPT ![a] = StopResolver(a, tables[a])]
    /\ WorkerMoves(a, "routes")
    /\ UNCHANGED <<feeds, stage, cur, feed_error, tables, route_res, tt_res, artifacts,
                   run_error, exit_status, written>>
    /\ UNCHANGED nonParVars

WorkerRoutes(a) ==
    /\ worker[a] = "routes"
    /\ route_res' = [route_res EXCEPT ![a] = RouteBuilder(a, tables[a])]
    /\ WorkerMoves(a, "timetable")
    /\ UNCHANGED <<feeds, stage, cur, feed_error, tables, stop_res, tt_res, artifacts,
                   run_error, exit_status, written>>
    /\ UNCHANGED nonParVars

WorkerTimetable(a) ==
    /\ worker[a] = "timetable"
    /\ tt_res' = [tt_res EXCEPT ![a] = TimetableBuilder(tables[a])]
    /\ WorkerEnds(a, "finished")
    /\ UNCHANGED <<feeds, stage, cur, feed_error, tables, stop_res, route_res, artifacts,
                   run_error, exit_status, written>>
    /\ UNCHANGED nonParVars

\* the barrier opening as soon as one worker has ended
SomeWorkerEnded == \E a \in Agencies : worker[a] \in {"finished", "failed"}
\* the barrier: every worker has completed, with a result or with a failed feed
AllWorkersEnded == \A a \in Agencies : worker[a] \in {"finished", "failed"}

\* the Output Assembler is let in
JoinWorkers ==
    /\ stage = "workers"
    /\ AllWorkersEnded
    /\ stage' = "assemble"
    /\ UNCHANGED <<feeds, cur, feed_error, tables, stop_res, route_res, tt_res, artifacts,
                   run_error, exit_status, written>>
    /\ UNCHANGED nonPipeVars

\* feeds for the parallel run: the trips of route 1 in two row orders
ParBundles ==
    { Bundle(rot, <<1, 2>>, Range(1, MaxStops), DefaultDep, DefaultSvc) : rot \in 0..1 }

InitPar ==
    /\ \E h \in [Agencies -> Health], b \in ParBundles :
          RunStartAt([a \in Agencies |-> Feed(h[a], b)], "workers")
    /\ TimeIdle
    /\ worker = [a \in Agencies |-> "load"]
    /\ finish_order = <<>>
    /\ FileIdle
    /\ UiIdle
    /\ LoadIdle
    /\ BoxIdle

NextPar ==
    \/ \E a \in Agencies :
          \/ WorkerLoad(a)
          \/ WorkerValidate(a)
          \/ WorkerNamespace(a)
          \/ WorkerStops(a)
          \/ WorkerRoutes(a)
          \/ WorkerTimetable(a)
    \/ JoinWorkers
    \/ AssembleOutput
    \/ WriteOutput

SpecPar == InitPar /\ [][NextPar]_vars

-----------------------------------------------------------------------------
(* The output step file by file, with a consumer fetching the files while    *)
(* it goes on.                                                               *)

\* the file the writer is at, and what it has done for it: 0 nothing yet,
\* 1 a first part written, 2 all of it written
WriterFile == OutputFiles[(wstep \div 3) + 1]
WriterPhase == wstep % 3
Writing == stage = "write" /\ wstep < 3 * Len(OutputFiles)

\* writing straight to the path the consumer fetches
WriteInPlace(f) == FinalPath(f)
\* the path the writer writes a file to
WriteTarget(f) == TempPath(f)

\* open the target and write a first part of the file
WriteFirstPart ==
    /\ Writing
    /\ WriterPhase = 0
    /\ disk' = [disk EXCEPT ![WriteTarget(WriterFile)] = NewFile(artifacts, WriterFile, FALSE)]
    /\ wstep' = wstep + 1
    /\ UNCHANGED <<seen>>
    /\ UNCHANGED pipeVars
    /\ UNCHANGED nonFileVars

\* write the rest of the file and close it
WriteRest ==
    /\ Writing
    /\ WriterPhase = 1
    /\ disk' = [disk EXCEPT ![WriteTarget(WriterFile)] = NewFile(artifacts, WriterFile, TRUE)]
    /\ wstep' = wstep + 1
    /\ UNCHANGED <<seen>>
    /\ UNCHANGED pipeVars
    /\ UNCHANGED nonFileVars

\* rename the written file into place
RenameIntoPlace ==
    /\ Writing
    /\ WriterPhase = 2
    /\ disk' = [p \in Paths |->
                  IF p = FinalPath(WriterFile) THEN disk[WriteTarget(WriterFile)]
                  ELSE IF p = WriteTarget(WriterFile) THEN NoFile
                  ELSE disk[p]]
    /\ wstep' = wstep + 1
    /\ UNCHANGED <<seen>>
    /\ UNCHANGED pipeVars
    /\ UNCHANGED nonFileVars

\* all files are in place: the process exits with 0
CompleteOutput ==
    /\ stage = "write"
    /\ wstep = 3 * Len(OutputFiles)
    /\ written' = artifacts
    /\ exit_status' = 0
    /\ stage' = "done"
    /\ UNCHANGED <<feeds, cur, feed_error, tables, stop_res, route_res, tt_res, artifacts,
                   run_error>>
    /\ UNCHANGED fileVars
    /\ UNCHANGED nonFileVars

\* const response = await fetch(getDataPath(filename)): the consumer gets the
\* file that is at the path at that moment
fetchJson(f) ==
    /\ seen' = [file |-> f, content |-> disk[FinalPath(f)]]
    /\ UNCHANGED <<disk, wstep>>
    /\ UNCHANGED pipeVars
    /\ UNCHANGED nonFileVars

\* feeds for the output step: one healthy feed in two row orders of its trips
WriteBundles ==
    { Bundle(rot, <<1, 2>>, Range(1, MaxStops), DefaultDep, DefaultSvc) : rot \in 0..1 }

InitWrite ==
    /\ \E b \in WriteBundles :
          RunStart([a \in Agencies |->
                       Feed(CASE a = "HMRL" -> "ok"
                              [] a = "MMTS" -> "missing_table"
                              [] a = "TGSRTC" -> "missing_column", b)])
    /\ TimeIdle
    /\ ParIdle
    /\ disk \in {EmptyDisk, PreviousDisk}
    /\ wstep = 0
    /\ seen = NoRead
    /\ UiIdle
    /\ LoadIdle
    /\ BoxIdle

NextWrite ==
    \/ LoadFeed
    \/ ValidateFeed
    \/ NamespaceFeed
    \/ ResolveStops
    \/ BuildRoutes
    \/ BuildTimetable
    \/ AssembleOutput
    \/ WriteFirstPart
    \/ WriteRest
    \/ RenameIntoPlace
    \/ CompleteOutput
    \/ \E f \in FileNames : fetchJson(f)

SpecWrite == InitWrite /\ [][NextWrite]_vars

-----------------------------------------------------------------------------
(* The map UI: any reducer action may be dispatched at any time *)

\* ids that SELECT_STOP, SELECT_ROUTE and the visibility actions are given
StopPayloads == {"M2", "L1", "L2", "B2", "X9"}
RoutePayloads == {"RA", "RB", "RC"}

InitUI ==
    /\ RunOff
    /\ TimeIdle
    /\ ParIdle
    /\ FileIdle
    /\ UiIdle
    /\ LoadIdle
    /\ BoxIdle

NextUI ==
    \/ Dispatch([type |-> "SET_DATA", payload |-> UIData])
    \/ \E b \in BOOLEAN : Dispatch([type |-> "SET_LOADING", payload |-> b])
    \/ Dispatch([type |-> "SET_ERROR", payload |-> "Failed to load data"])
    \/ \E t \in TransitTypes : Dispatch([type |-> "TOGGLE_FILTER", payload |-> t])
    \/ \E f \in [TransitTypes -> BOOLEAN] : Dispatch([type |-> "SET_FILTERS", payload |-> f])
    \/ \E id \in StopPayloads \cup {Null} : Dispatch([type |-> "SELECT_STOP", payload |-> id])
    \/ \E id \in RoutePayloads \cup {Null} : Dispatch([type |-> "SELECT_ROUTE", payload |-> id])
    \/ \E l \in {<<>>, <<"RC">>} : Dispatch([type |-> "SET_HIGHLIGHTED_ROUTES", payload |-> l])
    \/ Dispatch([type |-> "TOGGLE_SIDEBAR"])
    \/ Dispatch([type |-> "OPEN_SIDEBAR"])
    \/ \E id \in RoutePayloads : Dispatch([type |-> "TOGGLE_ROUTE_VISIBILITY", payload |-> id])
    \/ \E v \in {{}, {"RB", "RC"}} : Dispatch([type |-> "SET_VISIBLE_ROUTES", payload |-> v])
    \/ Dispatch([type |-> "CLEAR_SELECTION"])

SpecUI == InitUI /\ [][NextUI]_vars

-----------------------------------------------------------------------------
(* The map loads its data: the mount effect, the loader and the fetches *)

InitLoad ==
    /\ RunOff
    /\ TimeIdle
    /\ ParIdle
    /\ FileIdle
    /\ UiIdle
    /\ LoadIdle
    /\ BoxIdle

NextLoad ==
    \/ \E c \in LoadCalls : loadTransitData(c)
    \/ \E c \in LoadCalls : \E f \in FileNames : FetchFulfilled(c, f)
    \/ \E c \in LoadCalls : \E f \in FileNames : FetchRejected(c, f)
    \/ \E c \in LoadCalls : AssignCache(c)
    \/ clearCache
    \/ \E c \in EffectCalls : LoadSettled(c)

SpecLoad == InitLoad /\ [][NextLoad]_vars

\* The effect runs when the provider mounts, every fetch settles, and a
\* promise that has settled runs what awaits it.  Nothing makes a second run
\* of the effect, a later call or clearCache happen.
LoadFairness ==
    /\ WF_vars(loadTransitData("mount"))
    /\ \A c \in LoadCalls :
          /\ WF_vars(\E f \in FileNames : FetchFulfilled(c, f) \/ FetchRejected(c, f))
          /\ WF_vars(AssignCache(c))
    /\ \A c \in EffectCalls : WF_vars(LoadSettled(c))

SpecLoadFair == SpecLoad /\ LoadFairness

-----------------------------------------------------------------------------
(* The SearchBox in use, next to the FilterControls *)

\* what is typed into the input
Queries == {<<>>, <<"a">>, <<"a", "m">>, <<" ", "L", "I", " ">>, <<"z", "z">>}
Categories == {"all", "stops", "routes"}

InitSearch ==
    /\ RunOff
    /\ TimeIdle
    /\ ParIdle
    /\ FileIdle
    /\ UiIdle
    /\ LoadIdle
    /\ BoxIdle

NextSearch ==
    \/ DataArrives
    \/ \E q \in Queries : TypeQuery(q)
    \/ FocusInput
    \/ ClickOutside
    \/ ClearQuery
    \/ \E cat \in Categories : SetCategory(cat)
    \/ \E type \in TransitTypes \cup {"all"} : TypeButton(type)
    \/ ArrowDown
    \/ ArrowUp
    \/ Enter
    \/ Escape
    \/ \E i \in 1..Len(results(state, box)) : ClickResult(i)
    \/ \E t \in TransitTypes : FilterButton(t)

SpecSearch == InitSearch /\ [][NextSearch]_vars

-----------------------------------------------------------------------------
(* The whole page in use: every event its components offer *)

AllStopIds == {x.stop_id : x \in SeqToSet(UIData.stops)}
AllRouteIds == {x.route_id : x \in SeqToSet(UIData.routes)}

NextApp ==
    \/ NextSearch
    \/ \E r \in AllRouteIds : RouteListClick(r)
    \/ \E r \in AllRouteIds : RouteListToggle(r)
    \/ \E r \in AllRouteIds : StopInfoRouteClick(r)
    \/ \E id \in AllStopIds : RouteInfoStopClick(id)
    \/ \E id \in AllStopIds : MarkerClick(id)
    \/ \E r \in AllRouteIds : PolylineClick(r)
    \/ ClearButton
    \/ SidebarToggle
    \/ SidebarOpen

SpecApp == InitSearch /\ [][NextApp]_vars

-----------------------------------------------------------------------------
(* Properties *)

Done == stage = "done"
HasOutput == artifacts # NoOutput
StopIdsOf(stops) == {x.stop_id : x \in SeqToSet(stops)}
RouteIdsOf(routes) == {x.route_id : x \in SeqToSet(routes)}

\* C1: in the assembled output a stop lists a route exactly when the route's
\* stop list holds the stop.
C1_IndexInverse ==
    HasOutput =>
        \A s \in SeqToSet(artifacts.stops) : \A r \in SeqToSet(artifacts.routes) :
            /\ (r.route_id \in s.routes) <=> (r.route_id \in artifacts.stop_to_routes[s.stop_id])
            /\ (r.route_id \in s.routes) <=>
                   (\E k \in 1..Len(artifacts.route_to_stops[r.route_id]) :
                        artifacts.route_to_stops[r.route_id][k].stop_id = s.stop_id)

\* C2: no two stop features of the assembled output share a stop_id and no two
\* route features share a route_id.
C2_UniqueIds ==
    HasOutput =>
        /\ \A i, j \in 1..Len(artifacts.stops) :
              artifacts.stops[i].stop_id = artifacts.stops[j].stop_id => i = j
        /\ \A i, j \in 1..Len(artifacts.routes) :
              artifacts.routes[i].route_id = artifacts.routes[j].route_id => i = j

\* two agencies contribute a stop and a route of the same agency-local id
C2_Witness ==
    /\ HasOutput
    /\ \E i, j \in 1..Len(artifacts.stops) :
          /\ artifacts.stops[i].agency # artifacts.stops[j].agency
          /\ artifacts.stops[i].stop_id = AgencyCode(artifacts.stops[i].agency) \o <<"_">> \o StopId(1)
          /\ artifacts.stops[j].stop_id = AgencyCode(artifacts.stops[j].agency) \o <<"_">> \o StopId(1)
    /\ \E i, j \in 1..Len(artifacts.routes) :
          /\ artifacts.routes[i].agency # artifacts.routes[j].agency
          /\ artifacts.routes[i].route_id = AgencyCode(artifacts.routes[i].agency) \o <<"_">> \o RouteId(2)
          /\ artifacts.routes[j].route_id = AgencyCode(artifacts.routes[j].agency) \o <<"_">> \o RouteId(2)

\* C3: whatever is assembled refers only to routes and stops of the collections;
\* when the per-agency results do not, the run ends with IndexIntegrityError,
\* a failing exit status and nothing assembled or written.
C3_IndexIntegrity ==
    /\ HasOutput =>
          /\ \A s \in SeqToSet(artifacts.stops) : s.routes \subseteq RouteIdsOf(artifacts.routes)
          /\ \A r \in SeqToSet(artifacts.routes) : \A k \in 1..Len(r.stops) :
                r.stops[k].stop_id \in StopIdsOf(artifacts.stops)
    /\ written # NoOutput => written = artifacts
    /\ (Done /\ Succeeded(feed_error) # {}
             /\ \E a \in Agencies : \E s \in SeqToSet(stop_res[a]) :
                   ~(s.routes \subseteq UNION {RouteIdsOf(route_res[b]) : b \in Agencies}))
          => /\ run_error = "IndexIntegrityError"
             /\ exit_status # 0
             /\ artifacts = NoOutput
             /\ written = NoOutput

\* a stop lists a route that was dropped, and the run has ended without output
C3_Witness ==
    /\ Done
    /\ run_error = "IndexIntegrityError"
    /\ written = NoOutput
    /\ \E a \in Agencies : \E s \in SeqToSet(stop_res[a]) :
          ~(s.routes \subseteq UNION {RouteIdsOf(route_res[b]) : b \in Agencies})

\* the label of a GTFS time: two-digit hour mod 24, ":", the minutes
DisplayLabel(gtfs_time) ==
    LET v == TimeValue(gtfs_time)
    IN  Fmt02d((v \div 3600) % 24) \o <<":">> \o Fmt02d((v \div 60) % 60)

TimesOf(e, day_type) == IF day_type = "weekday" THEN e.weekday ELSE e.weekend

\* C4: within one (stop, route, day-type) array a departure with the smaller
\* original (pre-modulo) time stands before one with a larger original time.
C4_PreModuloOrder ==
    \A a \in Agencies : \A e \in tt_res[a] : \A d \in DayTypes :
        LET rows == Bucket(tables[a], e.stop_id, e.route_id, d)
            out == TimesOf(e, d)
        IN  \A r1, r2 \in rows :
                TimeValue(r1.departure_time) < TimeValue(r2.departure_time) =>
                    \E i, j \in 1..Len(out) :
                        /\ i < j
                        /\ out[i] = DisplayLabel(r1.departure_time)
                        /\ out[j] = DisplayLabel(r2.departure_time)

\* raw 23:50:00 and 25:10:00 in one bucket, whose array is "23:50" then "01:10"
C4_Witness ==
    \E a \in Agencies : \E e \in tt_res[a] :
        /\ \E r1, r2 \in Bucket(tables[a], e.stop_id, e.route_id, "weekday") :
              /\ r1.departure_time = <<"2", "3", ":", "5", "0", ":", "0", "0">>
              /\ r2.departure_time = <<"2", "5", ":", "1", "0", ":", "0", "0">>
        /\ e.weekday = << <<"2", "3", ":", "5", "0">>, <<"0", "1", ":", "1", "0">> >>

IsHHMM(l) ==
    /\ Len(l) = 5
    /\ l[3] = ":"
    /\ \A i \in {1, 2, 4, 5} : IsDigit(l[i])
    /\ ToInt(<<l[1], l[2]>>) < 24

\* C6: normalize_time yields the two-digit hour H mod 24 and the minutes, and
\* every time of the timetable arrays and of first_time / last_time is an HH:MM
\* with an hour below 24.
C6_Normalized ==
    /\ tout # NotRun => (tout = DisplayLabel(tin) /\ IsHHMM(tout))
    /\ \A a \in Agencies : \A e \in tt_res[a] : \A d \in DayTypes :
          \A i \in 1..Len(TimesOf(e, d)) : IsHHMM(TimesOf(e, d)[i])
    /\ \A a \in Agencies : \A s \in SeqToSet(stop_res[a]) :
          IsHHMM(s.first_time) /\ IsHHMM(s.last_time)

\* "25:30:00" has become "01:30"
C6_Witness ==
    /\ tin = <<"2", "5", ":", "3", "0", ":", "0", "0">>
    /\ tout = <<"0", "1", ":", "3", "0">>

\* C7: normalizing a normalized value returns it unchanged.
C7_Idempotent == tout2 # NotRun => tout2 = tout

\* what a feed yields when it is processed on its own
StopsAlone(a) == StopResolver(a, NamespaceTables(a, feeds[a].bundle))
RoutesAlone(a) == RouteBuilder(a, NamespaceTables(a, feeds[a].bundle))
TimetableAlone(a) == TimetableBuilder(NamespaceTables(a, feeds[a].bundle))
OwnedBy(a, id) ==
    /\ Len(id) > Len(AgencyCode(a))
    /\ SubSeq(id, 1, Len(AgencyCode(a)) + 1) = AgencyCode(a) \o <<"_">>

\* C8: when the run has ended, a feed that failed loading or validation has
\* contributed nothing, every other feed's stops, routes and timetable entries
\* are in the output as that feed yields them, and the exit status is 0 exactly
\* when at least one feed succeeded.
C8_PartialFailure ==
    Done =>
        /\ \A a \in Agencies : feeds[a].health # "ok" =>
              (written # NoOutput =>
                  /\ \A s \in SeqToSet(written.stops) : s.agency # a /\ ~OwnedBy(a, s.stop_id)
                  /\ \A r \in SeqToSet(written.routes) : r.agency # a /\ ~OwnedBy(a, r.route_id)
                  /\ \A e \in written.timetable : ~OwnedBy(a, e.stop_id))
        /\ \A a \in Agencies : feeds[a].health = "ok" =>
              /\ written # NoOutput
              /\ SelectRows(written.stops, {i \in 1..Len(written.stops) :
                                                written.stops[i].agency = a}) = StopsAlone(a)
              /\ SelectRows(written.routes, {i \in 1..Len(written.routes) :
                                                 written.routes[i].agency = a}) = RoutesAlone(a)
              /\ {e \in written.timetable : OwnedBy(a, e.stop_id)} = TimetableAlone(a)
        /\ (exit_status = 0) <=> (\E a \in Agencies : feeds[a].health = "ok")

\* C9: a stop of stops.txt without a stop_times row is not in the output, and
\* every stop of the output lists at least one route.
C9_Pruning ==
    HasOutput =>
        /\ \A s \in SeqToSet(artifacts.stops) : s.routes # {}
        /\ \A a \in Agencies : \A i \in 1..Len(feeds[a].bundle.stops) :
              LET id == feeds[a].bundle.stops[i].stop_id
              IN  (\A row \in feeds[a].bundle.stop_times : row.stop_id # id) =>
                      (AgencyCode(a) \o <<"_">> \o id) \notin StopIdsOf(artifacts.stops)

\* a feed with a stop nothing calls at has put its other stops into the output
C9_Witness ==
    /\ HasOutput
    /\ \E a \in Agencies :
          /\ feed_error[a] = "none"
          /\ \E i \in 1..Len(feeds[a].bundle.stops) :
                /\ feeds[a].bundle.stops[i].stop_id = OrphanStop
                /\ \A row \in feeds[a].bundle.stop_times : row.stop_id # OrphanStop
          /\ \E s \in SeqToSet(artifacts.stops) : s.agency = a
          /\ (AgencyCode(a) \o <<"_">> \o OrphanStop) \notin StopIdsOf(artifacts.stops)

\* the trip with the most stop_times rows, the lexically smallest trip_id among equals
longest_trip(t, route_id) ==
    LET ts == SeqToSet(route_trips(t, route_id))
        Better(x, y) ==
            \/ Cardinality(trip_rows(t, x.trip_id)) > Cardinality(trip_rows(t, y.trip_id))
            \/ /\ Cardinality(trip_rows(t, x.trip_id)) = Cardinality(trip_rows(t, y.trip_id))
               /\ LexLess(x.trip_id, y.trip_id)
    IN  CHOOSE x \in ts : \A y \in ts \ {x} : Better(x, y)


\* C10: the representative trip of every built route is the trip of the route
\* with the most stop_times rows, the lexically smallest trip_id among equals.
C10_RepresentativeTrip ==
    \A a \in Agencies : \A r \in SeqToSet(route_res[a]) :
        r.trip_id = longest_trip(tables[a], r.route_id).trip_id

\* the multiple of 10 millionths nearest to x
Nearest5(x) == CHOOSE y \in (x - 4)..(x + 4) : y % 10 = 0

\* the trips.txt row of the representative trip of a built route
RepTripRow(a, r) == CHOOSE x \in SeqToSet(tables[a].trips) : x.trip_id = r.trip_id
\* the stops.txt row of the feed behind a namespaced stop_id
FeedStopRow(a, stop_id) ==
    CHOOSE x \in SeqToSet(feeds[a].bundle.stops) : AgencyCode(a) \o <<"_">> \o x.stop_id = stop_id
ShapeBased(a, r) == feeds[a].bundle.shapes.present /\ RepTripRow(a, r).shape_id # NoShape

\* C11: the geometry of a built route is the point sequence of the shape of
\* its representative trip, in shape_pt_sequence order, when the feed has
\* shapes.txt and that trip names a shape_id; otherwise it has one [lng, lat]
\* point per stop of the route's stop list, in that order.  Coordinates are
\* rounded to 5 decimals.
C11_Geometry ==
    \A a \in Agencies : \A r \in SeqToSet(route_res[a]) :
        IF ShapeBased(a, r)
        THEN LET pts == {x \in SeqToSet(feeds[a].bundle.shapes.rows) :
                            x.shape_id = RepTripRow(a, r).shape_id}
             IN  /\ Len(r.geometry) = Cardinality(pts)
                 /\ \A x \in pts :
                       r.geometry[1 + Cardinality({y \in pts :
                                      y.shape_pt_sequence < x.shape_pt_sequence})]
                           = <<Nearest5(x.shape_pt_lon), Nearest5(x.shape_pt_lat)>>
        ELSE /\ Len(r.geometry) = Len(r.stops)
             /\ \A k \in 1..Len(r.stops) :
                   r.geometry[k] = << Nearest5(FeedStopRow(a, r.stops[k].stop_id).stop_lon),
                                      Nearest5(FeedStopRow(a, r.stops[k].stop_id).stop_lat) >>

\* one feed has a route drawn from its three-point shape and a route drawn
\* from the stops of its trip although shapes.txt is there
C11_Witness ==
    \E a \in Agencies : \E r1, r2 \in SeqToSet(route_res[a]) :
        /\ ShapeBased(a, r1)
        /\ RepTripRow(a, r1).shape_id = ShapeId(1)
        /\ r1.geometry = << <<78405010, 17405000>>, <<78415010, 17415000>>, <<78425010, 17425000>> >>
        /\ feeds[a].bundle.shapes.present
        /\ ~ShapeBased(a, r2)
        /\ r2.geometry = << <<StopLon(2) + 4, StopLat(2) - 4>>, <<StopLon(1) + 4, StopLat(1) - 4>> >>

\* the routes of routes.txt whose representative trip has fewer than 2 stop_times rows
DroppedRoutes(a) ==
    { id \in RouteIds(tables[a]) :
        /\ route_trips(tables[a], id) # <<>>
        /\ Cardinality(trip_rows(tables[a], route_trips(tables[a], id)[1].trip_id)) < 2 }

\* C12: a route whose representative trip has fewer than 2 stop_times rows is
\* not among the built routes; a run in which a feed dropped a route still
\* ends with exit status 0 and that feed's other routes written; and every
\* route of the output has at least 2 stops and at least 2 coordinates.
C12_RouteRetention ==
    /\ \A a \in Agencies : tables[a] # NoTables =>
          \A r \in SeqToSet(route_res[a]) : r.route_id \notin DroppedRoutes(a)
    /\ Done =>
          \A a \in Agencies : (feeds[a].health = "ok" /\ DroppedRoutes(a) # {}) =>
              /\ feed_error[a] = "none"
              /\ run_error = "none"
              /\ exit_status = 0
              /\ written # NoOutput
              /\ \A r \in SeqToSet(RoutesAlone(a)) : r \in SeqToSet(written.routes)
    /\ HasOutput =>
          \A r \in SeqToSet(artifacts.routes) : Len(r.stops) >= 2 /\ Len(r.geometry) >= 2

\* the calendar.txt row of the feed for a namespaced service_id, as a set
FeedCalendar(a, service_id) ==
    {c \in SeqToSet(feeds[a].bundle.calendar) : AgencyCode(a) \o <<"_">> \o c.service_id = service_id}

\* the labels of the departures at (stop, route) of the trips whose service has
\* a calendar row with one of the days active
LabelsOn(a, stop_id, route_id, days) ==
    { DisplayLabel(x.departure_time) :
        x \in { y \in JoinedStopTimes(tables[a]) :
                  /\ y.stop_id = stop_id
                  /\ \E tr \in SeqToSet(JoinedTrips(tables[a])) :
                        /\ tr.trip_id = y.trip_id
                        /\ tr.route_id = route_id
                        /\ \E c \in FeedCalendar(a, tr.service_id) : \E d \in days : c.days[d] = 1 } }

\* C13: the weekday array of a (stop, route) entry holds the departures of
\* exactly the trips whose service has one of Monday..Friday active, the
\* weekend array those of exactly the trips whose service has Saturday or
\* Sunday active.
C13_DayTypes ==
    \A a \in Agencies : \A e \in tt_res[a] :
        /\ SeqToSet(e.weekday) = LabelsOn(a, e.stop_id, e.route_id, 1..5)
        /\ SeqToSet(e.weekend) = LabelsOn(a, e.stop_id, e.route_id, 6..7)

\* at one stop a Friday-only trip leaves at 08:15, a trip of a service active
\* on no day at 23:50 and a daily trip at 01:30
C13_Witness ==
    \E a \in Agencies : \E e \in tt_res[a] :
        /\ \E x, y \in JoinedStopTimes(tables[a]) : \E tx, ty \in SeqToSet(tables[a].trips) :
              /\ x.stop_id = e.stop_id /\ y.stop_id = e.stop_id
              /\ tx.trip_id = x.trip_id /\ ty.trip_id = y.trip_id
              /\ tx.route_id = e.route_id /\ ty.route_id = e.route_id
              /\ tx.service_id = AgencyCode(a) \o <<"_", "F", "R", "I">>
              /\ x.departure_time = <<"0", "8", ":", "1", "5", ":", "0", "0">>
              /\ ty.service_id = AgencyCode(a) \o <<"_", "N", "O", "N", "E">>
              /\ y.departure_time = <<"2", "3", ":", "5", "0", ":", "0", "0">>
        /\ e.weekday = << <<"0", "1", ":", "3", "0">>, <<"0", "8", ":", "1", "5">> >>
        /\ e.weekend = << <<"0", "1", ":", "3", "0">> >>

\* the trips of a feed whose service_id has no calendar row
UnlistedTrips(t) ==
    {i \in 1..Len(t.trips) : \A j \in 1..Len(t.calendar) : t.calendar[j].service_id # t.trips[i].service_id}
\* the tables without those trips
WithoutUnlistedTrips(t) ==
    [t EXCEPT !.trips = SelectRows(t.trips, (1..Len(t.trips)) \ UnlistedTrips(t))]

\* C14: the timetable of a feed is the one built from the feed without the
\* trips whose service_id has no calendar row (an entry that only such trips
\* reach has two empty arrays), and building it fails neither the feed nor the run.
C14_MissingCalendar ==
    \A a \in Agencies : tt_res[a] # {} =>
        /\ feed_error[a] = "none"
        /\ run_error = "none"
        /\ \A e \in tt_res[a] :
              LET others == {o \in TimetableBuilder(WithoutUnlistedTrips(tables[a])) :
                                o.stop_id = e.stop_id /\ o.route_id = e.route_id}
              IN  IF others = {} THEN e.weekday = <<>> /\ e.weekend = <<>>
                  ELSE \A o \in others : o.weekday = e.weekday /\ o.weekend = e.weekend

\* a trip without a calendar row leaves at 25:10; the run has ended well and
\* the entry of its stop shows the other trips' times only
C14_Witness ==
    /\ Done
    /\ exit_status = 0
    /\ \E a \in Succeeded(feed_error) : \E e \in written.timetable :
       \E i \in UnlistedTrips(tables[a]) :
          /\ tables[a].trips[i].route_id = e.route_id
          /\ \E x \in JoinedStopTimes(tables[a]) :
                /\ x.trip_id = tables[a].trips[i].trip_id
                /\ x.stop_id = e.stop_id
                /\ x.departure_time = <<"2", "5", ":", "1", "0", ":", "0", "0">>
          /\ \A k \in 1..Len(e.weekday) : e.weekday[k] # <<"0", "1", ":", "1", "0">>
          /\ \A k \in 1..Len(e.weekend) : e.weekend[k] # <<"0", "1", ":", "1", "0">>
          /\ e.weekday # <<>>
          /\ e.weekend # <<>>

\* C15: after the Identifier Namespacer has run on a feed, every stop_id,
\* route_id, trip_id and service_id of its tables, key or foreign key, is the
\* agency code, "_" and the id of the feed file; splitting the prefix off an id
\* of the tables or of the results once gives the id of the feed file again;
\* and the joins match the rows they matched on the ids of the feed files.
C15_NamespacedOnce ==
    \A a \in Agencies : tables[a] # NoTables =>
        LET t == tables[a]
            b == feeds[a].bundle
            code == AgencyCode(a)
        IN  /\ Len(t.stops) = Len(b.stops) /\ Len(t.routes) = Len(b.routes)
            /\ Len(t.trips) = Len(b.trips) /\ Len(t.calendar) = Len(b.calendar)
            /\ \A i \in 1..Len(b.stops) : t.stops[i].stop_id = code \o <<"_">> \o b.stops[i].stop_id
            /\ \A i \in 1..Len(b.routes) : t.routes[i].route_id = code \o <<"_">> \o b.routes[i].route_id
            /\ \A i \in 1..Len(b.trips) :
                  /\ t.trips[i].trip_id = code \o <<"_">> \o b.trips[i].trip_id
                  /\ t.trips[i].route_id = code \o <<"_">> \o b.trips[i].route_id
                  /\ t.trips[i].service_id = code \o <<"_">> \o b.trips[i].service_id
            /\ \A i \in 1..Len(b.calendar) :
                  t.calendar[i].service_id = code \o <<"_">> \o b.calendar[i].service_id
            /\ {<<r.trip_id, r.stop_id, r.stop_sequence>> : r \in t.stop_times}
                  = {<<code \o <<"_">> \o r.trip_id, code \o <<"_">> \o r.stop_id, r.stop_sequence>> :
                        r \in b.stop_times}
            /\ \A i \in 1..Len(b.stops) :
                  parseStopId(t.stops[i].stop_id) = [agency |-> code, originalId |-> b.stops[i].stop_id]
            /\ \A i \in 1..Len(b.routes) :
                  parseRouteId(t.routes[i].route_id) = [agency |-> code, originalId |-> b.routes[i].route_id]
            /\ \A x \in SeqToSet(stop_res[a]) :
                  /\ parseStopId(x.stop_id).agency = code
                  /\ parseStopId(x.stop_id).originalId \in StopIds(b)
                  /\ \A id \in x.routes : parseRouteId(id).originalId \in RouteIds(b)
            /\ \A x \in SeqToSet(route_res[a]) :
                  /\ parseRouteId(x.route_id).agency = code
                  /\ parseRouteId(x.route_id).originalId \in RouteIds(b)
                  /\ \A k \in 1..Len(x.stops) : parseStopId(x.stops[k].stop_id).originalId \in StopIds(b)
            /\ \A x \in tt_res[a] :
                  /\ parseStopId(x.stop_id).originalId \in StopIds(b)
                  /\ parseRouteId(x.route_id).originalId \in RouteIds(b)
            /\ Len(JoinedTrips(t)) = Len(JoinedTrips(b))
            /\ Cardinality(JoinedStopTimes(t)) = Cardinality(JoinedStopTimes(b))
            /\ \A i \in 1..Len(b.trips) : \A j \in 1..Len(b.calendar) :
                  (t.trips[i].service_id = t.calendar[j].service_id)
                      <=> (b.trips[i].service_id = b.calendar[j].service_id)

\* two feeds with the same ids in their files have been namespaced and processed
C15_Witness ==
    /\ tables["HMRL"] # NoTables /\ tables["TGSRTC"] # NoTables
    /\ tables["HMRL"].stops[1].stop_id = <<"H", "M", "R", "L", "_", "1">>
    /\ tables["TGSRTC"].stops[1].stop_id = <<"T", "G", "S", "R", "T", "C", "_", "1">>
    /\ feeds["HMRL"].bundle.stops[1].stop_id = feeds["TGSRTC"].bundle.stops[1].stop_id
    /\ route_res["HMRL"] # <<>> /\ route_res["TGSRTC"] # <<>>
    /\ tt_res["TGSRTC"] # {}

C17_ServiceWindow ==
    \A a \in Agencies : \A s \in SeqToSet(stop_res[a]) :
        LET labels == {DisplayLabel(x.departure_time) :
                          x \in {y \in JoinedStopTimes(tables[a]) : y.stop_id = s.stop_id}}
        IN  /\ s.first_time \in labels
            /\ s.last_time \in labels
            /\ \A l \in labels : LexLeq(s.first_time, l) /\ LexLeq(l, s.last_time)
            /\ LexLeq(s.first_time, s.last_time)

\* a stop with departures at 24:05:00 and in the morning: 00:05 is its first_time
C17_Witness ==
    \E a \in Agencies : \E s \in SeqToSet(stop_res[a]) :
        /\ \E x \in JoinedStopTimes(tables[a]) :
              /\ x.stop_id = s.stop_id
              /\ x.departure_time = <<"2", "4", ":", "0", "5", ":", "0", "0">>
        /\ s.first_time = <<"0", "0", ":", "0", "5">>
        /\ s.last_time = <<"0", "8", ":", "1", "0">>

\* what the run yields for a feed, whatever else goes on
ResultOf(a, alone) == IF feeds[a].health = "ok" THEN alone ELSE <<>>

\* C18: with parallel workers the assembler stands before the barrier until
\* every worker has ended: nothing is assembled, written or decided while a
\* worker still runs, and what is assembled is the merge of the complete
\* results of the feeds, in the fixed agency order, whatever the order in
\* which the workers ended.
C18_Barrier ==
    /\ (stage # "workers" \/ artifacts # NoOutput \/ run_error # "none" \/ exit_status # -1)
          => \A a \in Agencies : worker[a] \in {"finished", "failed"}
    /\ HasOutput =>
          artifacts = Assemble([a \in Agencies |-> ResultOf(a, StopsAlone(a))],
                               [a \in Agencies |-> ResultOf(a, RoutesAlone(a))],
                               [a \in Agencies |->
                                   IF feeds[a].health = "ok" THEN TimetableAlone(a) ELSE {}])

\* the workers ended in the order TGSRTC, MMTS, HMRL, all with results, and
\* the output lists HMRL's stops first
C18_Witness ==
    /\ finish_order = <<"TGSRTC", "MMTS", "HMRL">>
    /\ \A a \in Agencies : worker[a] = "finished"
    /\ HasOutput
    /\ artifacts.stops[1].agency = "HMRL"
    /\ artifacts.stops[Len(artifacts.stops)].agency = "TGSRTC"

\* a complete file of the earlier run / the complete file f of this run
IsPreviousFile(c) == c # NoFile /\ c.run = "previous" /\ c.complete
IsNewFile(c, f) ==
    /\ c # NoFile /\ c.run = "this" /\ c.complete
    /\ HasOutput /\ c.data = ArtifactOf(artifacts, f)

\* C19: at every moment a path the consumer fetches holds no file, the
\* complete file of the earlier run or the complete file of this run, and so
\* does whatever a fetch has returned; when the run has ended well, the six
\* complete files of this run are in place and no temporary file is left.
C19_AtomicOutput ==
    /\ \A f \in FileNames :
          \/ disk[FinalPath(f)] = NoFile
          \/ IsPreviousFile(disk[FinalPath(f)])
          \/ IsNewFile(disk[FinalPath(f)], f)
    /\ seen # NoRead =>
          \/ seen.content = NoFile
          \/ IsPreviousFile(seen.content)
          \/ IsNewFile(seen.content, seen.file)
    /\ (Done /\ exit_status = 0) =>
          \A f \in FileNames : IsNewFile(disk[FinalPath(f)], f) /\ disk[TempPath(f)] = NoFile

\* while the writer has routes.geojson half written at its temporary path,
\* the consumer has fetched that file and got the previous one, and the new
\* stops.geojson is in place already
C19_Witness ==
    /\ Writing
    /\ WriterFile = "routes.geojson"
    /\ WriterPhase = 1
    /\ disk[TempPath(WriterFile)] # NoFile
    /\ ~disk[TempPath(WriterFile)].complete
    /\ seen # NoRead
    /\ seen.file = WriterFile
    /\ IsPreviousFile(seen.content)
    /\ IsNewFile(disk[FinalPath("stops.geojson")], "stops.geojson")

\* C20: getFilteredStops and StopLayer yield no stop, and getFilteredRoutes no
\* route, of a transit type that is not switched on in filters, whatever is
\* selected; and TOGGLE_FILTER(t) changes filters[t] to its opposite and
\* nothing else of the state.
C20_TypeFilter ==
    /\ \A x \in SeqToSet(getFilteredStops(state)) :
          x.transit_type \in TransitTypes /\ state.filters[x.transit_type]
    /\ \A x \in SeqToSet(StopLayer(state)) :
          x.transit_type \in TransitTypes /\ state.filters[x.transit_type]
    /\ \A x \in SeqToSet(getFilteredRoutes(state)) :
          x.type_name \in TransitTypes /\ state.filters[x.type_name]
    /\ \A t \in TransitTypes :
          LET after == transitReducer(state, [type |-> "TOGGLE_FILTER", payload |-> t])
          IN  /\ after.filters[t] = ~state.filters[t]
              /\ \A u \in TransitTypes \ {t} : after.filters[u] = state.filters[u]
              /\ after.data = state.data /\ after.loading = state.loading
              /\ after.error = state.error /\ after.selection = state.selection
              /\ after.sidebarOpen = state.sidebarOpen
              /\ after.visibleRoutes = state.visibleRoutes

\* the rail route RB is selected and metro is switched off: of the two stops
\* of RB only the rail stop is listed and drawn
C20_Witness ==
    /\ state.data # NullData
    /\ state.selection.selectedRoute = "RB"
    /\ ~state.filters["metro"] /\ state.filters["rail"]
    /\ Len(allStops(state)) = 2
    /\ Len(getFilteredStops(state)) = 1
    /\ getFilteredStops(state)[1].stop_id = "L1"
    /\ StopLayer(state) = getFilteredStops(state)
    /\ Len(getFilteredRoutes(state)) = 1

\* the ids of the routes getFilteredRoutes returns
FilteredRouteIds(s) == {x.route_id : x \in SeqToSet(getFilteredRoutes(s))}
\* the state SELECT_STOP(id) leads to
AfterSelectStop(s, id) == transitReducer(s, [type |-> "SELECT_STOP", payload |-> id])

\* C21: once data is loaded, right after SELECT_STOP(s) with a non-null s
\* getFilteredRoutes returns only routes listed in stopToRoutes[s], for every
\* s, also one with an empty entry or with no entry in stopToRoutes.
C21_StopRestrictsRoutes ==
    \A id \in StopPayloads :
        LET after == AfterSelectStop(state, id)
        IN  after.data # NullData =>
                FilteredRouteIds(after) \subseteq SeqToSet(Lookup(after.data.stopToRoutes, id))

\* the state TOGGLE_ROUTE_VISIBILITY(id) leads to
AfterToggleRoute(s, id) == transitReducer(s, [type |-> "TOGGLE_ROUTE_VISIBILITY", payload |-> id])

\* the toggle of a hidden route r makes it visible and leaves the others as they are
C22_ShowHidden ==
    \A r \in RoutePayloads :
        LET after == AfterToggleRoute(state, r)
        IN  ~isRouteVisible(state, r) =>
                /\ isRouteVisible(after, r)
                /\ \A q \in RoutePayloads \ {r} : isRouteVisible(after, q) = isRouteVisible(state, q)

\* C22: TOGGLE_ROUTE_VISIBILITY(r) on a visible route r makes isRouteVisible(r)
\* false and takes r out of getFilteredRoutes while every other route keeps
\* its visibility; on a hidden route r it makes r visible.
C22_VisibilityToggle ==
    \A r \in RoutePayloads :
        LET after == AfterToggleRoute(state, r)
        IN  IF isRouteVisible(state, r)
            THEN /\ ~isRouteVisible(after, r)
                 /\ r \notin FilteredRouteIds(after)
                 /\ \A q \in RoutePayloads \ {r} :
                        isRouteVisible(after, q) = isRouteVisible(state, q)
            ELSE isRouteVisible(after, r)

\* a new call made while the cache is filled returns the cached object and fetches nothing
ServedFromCache ==
    \A c \in LoadCalls :
        (call[c].pc = "idle" /\ call'[c].pc # "idle" /\ isDataLoaded) =>
            /\ call'[c].pc = "resolved"
            /\ call'[c].ret = getCachedData
            /\ call'[c].issued = {}

\* the cache is filled only by a call whose six fetches all succeeded
FilledByCompleteCall ==
    /\ isDataLoaded =>
          /\ cachedData.parts = FileNames
          /\ call[cachedData.made_by].issued = FileNames
          /\ call[cachedData.made_by].fulfilled = FileNames
    /\ \A c \in LoadCalls :
          call[c].pc = "rejected" => (cachedData.made_by # c /\ call[c].ret = NoObject)

\* a filled cache keeps its object until clearCache empties it
SameObjectUntilCleared ==
    (isDataLoaded /\ cachedData' # cachedData) => (clearCache /\ ~isDataLoaded')

\* C23: cachedData becomes non-null only through a loadTransitData call whose
\* six fetches all succeeded (a failed fetch rejects the call and assigns
\* nothing); while it is non-null every new call returns that very object and
\* fetches nothing, and the cache holds the same object until clearCache,
\* after which isDataLoaded() is false.
C23_DataCache ==
    /\ []FilledByCompleteCall
    /\ [][ServedFromCache]_vars
    /\ [][SameObjectUntilCleared]_vars
    /\ [][clearCache => ~isDataLoaded']_vars

\* C24: while at least one transit type is switched on in filters, every stop
\* and every route in the results of the SearchBox is of a type that is
\* switched on.
C24_SearchFollowsFilter ==
    (\E t \in TransitTypes : state.filters[t]) =>
        \A i \in 1..Len(results(state, box)) :
            LET type == results(state, box)[i].transitType
            IN  type \in TransitTypes /\ state.filters[type]

\* selectedStop and selectedRoute are the same in s and in what the reducer makes of it
SameSelected(s, action) ==
    /\ transitReducer(s, action).selection.selectedStop = s.selection.selectedStop
    /\ transitReducer(s, action).selection.selectedRoute = s.selection.selectedRoute

\* C25: selectedStop and selectedRoute are never both non-null; SELECT_STOP
\* clears the route, SELECT_ROUTE clears the stop, CLEAR_SELECTION clears both,
\* and no other action changes either of them.
C25_SelectionExclusive ==
    /\ ~(state.selection.selectedStop # Null /\ state.selection.selectedRoute # Null)
    /\ \A id \in StopPayloads \cup {Null} :
          LET after == AfterSelectStop(state, id).selection
          IN  after.selectedStop = id /\ after.selectedRoute = Null
    /\ \A id \in RoutePayloads \cup {Null} :
          LET after == transitReducer(state, [type |-> "SELECT_ROUTE", payload |-> id]).selection
          IN  after.selectedRoute = id /\ after.selectedStop = Null
    /\ LET after == transitReducer(state, [type |-> "CLEAR_SELECTION"]).selection
       IN  after.selectedStop = Null /\ after.selectedRoute = Null
    /\ SameSelected(state, [type |-> "SET_DATA", payload |-> UIData])
    /\ \A b \in BOOLEAN : SameSelected(state, [type |-> "SET_LOADING", payload |-> b])
    /\ SameSelected(state, [type |-> "SET_ERROR", payload |-> "Failed to load data"])
    /\ \A t \in TransitTypes : SameSelected(state, [type |-> "TOGGLE_FILTER", payload |-> t])
    /\ \A f \in [TransitTypes -> BOOLEAN] : SameSelected(state, [type |-> "SET_FILTERS", payload |-> f])
    /\ \A l \in {<<>>, <<"RC">>} : SameSelected(state, [type |-> "SET_HIGHLIGHTED_ROUTES", payload |-> l])
    /\ SameSelected(state, [type |-> "TOGGLE_SIDEBAR"])
    /\ SameSelected(state, [type |-> "OPEN_SIDEBAR"])
    /\ \A id \in RoutePayloads : SameSelected(state, [type |-> "TOGGLE_ROUTE_VISIBILITY", payload |-> id])
    /\ \A v \in {{}, {"RB", "RC"}} : SameSelected(state, [type |-> "SET_VISIBLE_ROUTES", payload |-> v])

\* the route RB is selected, and selecting the stop M2 from here clears it
C25_Witness ==
    /\ state.selection.selectedRoute = "RB"
    /\ state.selection.selectedStop = Null
    /\ state.visibleRoutes = {"RB"}
    /\ AfterSelectStop(state, "M2").selection.selectedStop = "M2"
    /\ AfterSelectStop(state, "M2").selection.selectedRoute = Null

\* C26: in every state the page can be brought to, a selected route r goes
\* with visibleRoutes = {r} and highlightedRoutes = [r], a selected stop s with
\* visibleRoutes = the set of stopToRoutes[s] and highlightedRoutes =
\* stopToRoutes[s], and CLEAR_SELECTION leaves both empty.
C26_SelectionSetsRouteFilter ==
    /\ state.selection.selectedRoute # Null =>
          /\ state.visibleRoutes = {state.selection.selectedRoute}
          /\ state.selection.highlightedRoutes = <<state.selection.selectedRoute>>
    /\ state.selection.selectedStop # Null =>
          /\ state.data # NullData
          /\ state.visibleRoutes =
                SeqToSet(Lookup(state.data.stopToRoutes, state.selection.selectedStop))
          /\ state.selection.highlightedRoutes =
                Lookup(state.data.stopToRoutes, state.selection.selectedStop)
    /\ LET after == transitReducer(state, [type |-> "CLEAR_SELECTION"])
       IN  after.visibleRoutes = {} /\ after.selection.highlightedRoutes = <<>>

\* the stop M2 is selected: the filter is the two routes of M2, and the
\* sidebar shows its info panel in place of the route list
C26_Witness ==
    /\ state.selection.selectedStop = "M2"
    /\ state.visibleRoutes = {"RA", "RB"}
    /\ state.selection.highlightedRoutes = <<"RA", "RB">>
    /\ ~RouteListShown(state)

\* C27: in every state the stops StopLayer draws a marker for (in its list,
\* with isVisible true) are the stops getFilteredStops returns.
C27_StopLayerAgrees ==
    SeqToSet(StopLayer(state)) = SeqToSet(getFilteredStops(state))

\* the stop M2 is selected with its two routes as the filter and rail is
\* switched off: of the three stops on those routes the two metro stops are
\* drawn, and they are what getFilteredStops returns
C27_Witness ==
    /\ state.data # NullData
    /\ state.selection.selectedStop = "M2"
    /\ state.visibleRoutes = {"RA", "RB"}
    /\ state.filters["metro"] /\ ~state.filters["rail"]
    /\ {x.stop_id : x \in SeqToSet(allStops(state))} = {"M1", "M2", "L1"}
    /\ {x.stop_id : x \in SeqToSet(StopLayer(state))} = {"M1", "M2"}
    /\ {x.stop_id : x \in SeqToSet(getFilteredStops(state))} = {"M1", "M2"}

\* Enter changes the selection only when selectedIndex is an index of the list
EnterOnlyOnValidIndex ==
    (Enter /\ state'.selection # state.selection) =>
        (box.selectedIndex >= 0 /\ box.selectedIndex < Len(results(state, box)))

\* C28: after any sequence of SearchBox events and FilterControls toggles
\* selectedIndex is -1 or an index into the current results (selectedIndex <
\* results.length), and Enter selects a result only for such an index.
C28_IndexValid ==
    /\ [](box.selectedIndex = -1
          \/ (box.selectedIndex >= 0 /\ box.selectedIndex < Len(results(state, box))))
    /\ [][EnterOnlyOnValidIndex]_vars

\* once loading is over, either the data is there or an error is, not both
OneOutcome ==
    ~state.loading => ((state.data # NullData) # (state.error # Null))

\* C29: after the provider has mounted and every fetch has settled, loading
\* becomes false, and from then on exactly one of data # null and error # null
\* holds, also when the effect runs load() more than once.
C29_LoadOutcome ==
    /\ <>(~state.loading)
    /\ []OneOutcome

\* the transit types switched on in a TransitState
EnabledTypes(s) == {t \in TransitTypes : s.filters[t]}

\* C30: from any filter state, a click on the SearchBox button of a type T
\* that is not the only enabled type leaves exactly T enabled; a click on
\* 'All', or on the button of the only enabled type, leaves all three enabled.
C30_TypeButtons ==
    /\ EnabledTypes(AfterTypeButton(state, "all")) = TransitTypes
    /\ \A T \in TransitTypes :
          EnabledTypes(AfterTypeButton(state, T)) =
              IF EnabledTypes(state) = {T} THEN TransitTypes ELSE {T}

\* only rail is on: its button brings all three back, the bus button leaves
\* only bus on, in two toggles
C30_Witness ==
    /\ UiShown
    /\ EnabledTypes(state) = {"rail"}
    /\ typeButtonToggles(state, "rail") = <<"metro", "bus">>
    /\ EnabledTypes(AfterTypeButton(state, "rail")) = TransitTypes
    /\ typeButtonToggles(state, "bus") = <<"rail", "bus">>
    /\ EnabledTypes(AfterTypeButton(state, "bus")) = {"bus"}

====
